---- MODULE Spec2Model ----
(***************************************************************************)
(* Model of rust-tracing's environment-driven configuration loading:       *)
(* src/src/utils/from_env.rs (FromEnvErr, FromEnvVar, FromEnv and the      *)
(* provided leaf and wrapper implementations), the code generated by       *)
(* from-env-derive (field.rs, lib.rs) and the hand-written composites of   *)
(* src/src/utils/otlp.rs and src/src/utils/metrics.rs.                     *)
(*                                                                         *)
(* Text is a sequence of one-character strings, so that parsing is         *)
(* computed and never assumed.  Every typed value is a record [k, v] whose *)
(* k names the type or variant and whose v is the payload.                 *)
(***************************************************************************)
EXTENDS Integers, Sequences, FiniteSets, TLC

VARIABLES env, writes, call, res, reads, defaultCalls, globals

vars == <<env, writes, call, res, reads, defaultCalls, globals>>

(***************************************************************************)
(* Text helpers                                                            *)
(***************************************************************************)
Digit == [c \in {"0", "1", "2", "3", "4", "5", "6", "7", "8", "9"} |->
            CASE c = "0" -> 0 [] c = "1" -> 1 [] c = "2" -> 2 [] c = "3" -> 3
              [] c = "4" -> 4 [] c = "5" -> 5 [] c = "6" -> 6 [] c = "7" -> 7
              [] c = "8" -> 8 [] c = "9" -> 9]

IsDigit(c) == c \in DOMAIN Digit

LowerLetters == {"a", "b", "c", "d", "e", "f", "g", "h", "i", "l", "m", "n",
                 "o", "p", "r", "s", "t", "u", "v", "w", "x", "y"}

UpperOf == [c \in LowerLetters |->
            CASE c = "a" -> "A" [] c = "b" -> "B" [] c = "c" -> "C" [] c = "d" -> "D"
              [] c = "e" -> "E" [] c = "f" -> "F" [] c = "g" -> "G" [] c = "h" -> "H"
              [] c = "i" -> "I" [] c = "l" -> "L" [] c = "m" -> "M" [] c = "n" -> "N"
              [] c = "o" -> "O" [] c = "p" -> "P" [] c = "r" -> "R" [] c = "s" -> "S"
              [] c = "t" -> "T" [] c = "u" -> "U" [] c = "v" -> "V" [] c = "w" -> "W"
              [] c = "x" -> "X" [] c = "y" -> "Y"]

UpperLetters == {UpperOf[c] : c \in LowerLetters}

IsAlpha(c) == c \in LowerLetters \cup UpperLetters

ToLower(c) == IF c \in UpperLetters
              THEN CHOOSE l \in LowerLetters : UpperOf[l] = c
              ELSE c

ToUpper(c) == IF c \in LowerLetters THEN UpperOf[c] ELSE c

LowerText(s) == [i \in 1..Len(s) |-> ToLower(s[i])]

\* str::split(',') : the pieces between the commas, empty pieces included
RECURSIVE SplitComma(_)
SplitComma(s) ==
    IF \A i \in 1..Len(s) : s[i] # ","
    THEN <<s>>
    ELSE LET p == CHOOSE i \in 1..Len(s) :
                     s[i] = "," /\ \A j \in 1..(i - 1) : s[j] # ","
         IN <<SubSeq(s, 1, p - 1)>> \o SplitComma(SubSeq(s, p + 1, Len(s)))

(***************************************************************************)
(* The process environment and std::env::var                               *)
(***************************************************************************)
Unset == [k |-> "Unset", v |-> <<>>]
NonUnicode == [k |-> "NonUnicode", v |-> <<>>]
Bound(s) == [k |-> "Unicode", v |-> s]

\* std::env::var(name): Ok(text), Err(NotPresent) or Err(NotUnicode)
EnvVar(e, name) ==
    CASE name \notin DOMAIN e -> [k |-> "Err", v |-> "NotPresent"]
      [] e[name].k = "Unicode" -> [k |-> "Ok", v |-> e[name].v]
      [] e[name].k = "Unset" -> [k |-> "Err", v |-> "NotPresent"]
      [] e[name].k = "NonUnicode" -> [k |-> "Err", v |-> "NotUnicode"]

(***************************************************************************)
(* FromEnvErr<Inner> and Result                                            *)
(***************************************************************************)
Ok(x) == [k |-> "Ok", name |-> "", cause |-> "", v |-> x]
EnvError(n, c) == [k |-> "EnvError", name |-> n, cause |-> c, v |-> <<>>]
Empty(n) == [k |-> "Empty", name |-> n, cause |-> "", v |-> <<>>]
ParseError(x) == [k |-> "ParseError", name |-> "", cause |-> "", v |-> x]

IsOk(r) == r.k = "Ok"
IsErr(r) == r.k # "Ok"

\* FromEnvErr::env_err / FromEnvErr::empty / FromEnvErr::parse_error
env_err(var, e) == EnvError(var, e)
empty(var) == Empty(var)
parse_error(err) == ParseError(err)

\* a load: the result and the names read from the environment, in order
Load(r, rd) == [r |-> r, rd |-> rd]

\* the element of a one-element set: Only({f(x) : x \in {e}}) is f(e) with e
\* evaluated once
Only(S) == CHOOSE x \in S : TRUE

(***************************************************************************)
(* FromStr of the parseable leaf types (impl_for_parseable!)               *)
(***************************************************************************)
StrOk(x) == [k |-> "Ok", v |-> x]
StrErr(x) == [k |-> "Err", v |-> x]

IntTypes == {"u8", "u16", "u64", "usize", "i8"}
SignedTypes == {"i8"}
\* 64-bit types: no text of the model is long enough to overflow them
WideTypes == {"u64", "usize"}

IntMax_AsU16(t) == 65535

IntMax(t) == CASE t = "u8" -> 255 [] t = "u16" -> 65535 [] t = "i8" -> 127
IntMin(t) == CASE t = "u8" -> 0 [] t = "u16" -> 0 [] t = "i8" -> -128

ParseIntError(kind) == [k |-> "ParseIntError", v |-> kind]
IntV(t, n) == [k |-> t, v |-> n]

\* the digit loop of from_str_radix(src, 10): checked_mul, to_digit, checked_add
RECURSIVE Accumulate(_, _, _, _)
Accumulate(t, positive, digits, acc) ==
    IF digits = <<>>
    THEN StrOk(IntV(t, acc))
    ELSE LET c == Head(digits) IN
         IF ~IsDigit(c)
         THEN StrErr(ParseIntError("InvalidDigit"))
         ELSE LET nxt == IF positive THEN acc * 10 + Digit[c]
                                     ELSE acc * 10 - Digit[c]
              IN IF t \notin WideTypes /\ positive /\ nxt > IntMax(t)
                 THEN StrErr(ParseIntError("PosOverflow"))
                 ELSE IF t \notin WideTypes /\ ~positive /\ nxt < IntMin(t)
                 THEN StrErr(ParseIntError("NegOverflow"))
                 ELSE Accumulate(t, positive, Tail(digits), nxt)

ParseInt_NoSign(t, s) ==
    IF s = <<>>
    THEN StrErr(ParseIntError("Empty"))
    ELSE Accumulate(t, TRUE, s, 0)

\* <integer as FromStr>::from_str
ParseInt(t, s) ==
    IF s = <<>>
    THEN StrErr(ParseIntError("Empty"))
    ELSE IF Len(s) = 1 /\ s[1] \in {"+", "-"}
    THEN StrErr(ParseIntError("InvalidDigit"))
    ELSE IF s[1] = "+"
    THEN Accumulate(t, TRUE, Tail(s), 0)
    ELSE IF s[1] = "-" /\ t \in SignedTypes
    THEN Accumulate(t, FALSE, Tail(s), 0)
    ELSE Accumulate(t, TRUE, s, 0)

LevelV(l) == [k |-> "Level", v |-> l]
ParseLevelError == [k |-> "ParseLevelError", v |-> "invalid"]

\* <tracing::Level as FromStr>::from_str: 1..5, or the name in any case
ParseLevel(s) ==
    LET num == ParseInt("usize", s)
        low == LowerText(s)
    IN IF num.k = "Ok" /\ num.v.v \in 1..5
       THEN StrOk(LevelV(CASE num.v.v = 1 -> "ERROR" [] num.v.v = 2 -> "WARN"
                           [] num.v.v = 3 -> "INFO" [] num.v.v = 4 -> "DEBUG"
                           [] num.v.v = 5 -> "TRACE"))
       ELSE CASE low = <<"e", "r", "r", "o", "r">> -> StrOk(LevelV("ERROR"))
              [] low = <<"w", "a", "r", "n">> -> StrOk(LevelV("WARN"))
              [] low = <<"i", "n", "f", "o">> -> StrOk(LevelV("INFO"))
              [] low = <<"d", "e", "b", "u", "g">> -> StrOk(LevelV("DEBUG"))
              [] low = <<"t", "r", "a", "c", "e">> -> StrOk(LevelV("TRACE"))
              [] OTHER -> StrErr(ParseLevelError)

IsSchemeChar(c) == IsAlpha(c) \/ IsDigit(c) \/ c \in {"+", "-", "."}
UrlV(scheme, rest) == [k |-> "Url", v |-> [scheme |-> scheme, rest |-> rest]]
UrlParseError(kind) == [k |-> "url::ParseError", v |-> kind]

\* <url::Url as FromStr>::from_str on texts whose scheme, if any, is not a
\* special one: an absolute URL needs "scheme:", the scheme is lowercased
ParseUrl(s) ==
    LET colons == {i \in 2..Len(s) :
                      /\ s[i] = ":"
                      /\ IsAlpha(s[1])
                      /\ \A j \in 1..(i - 1) : IsSchemeChar(s[j])}
    IN IF colons = {}
       THEN StrErr(UrlParseError("RelativeUrlWithoutBase"))
       ELSE LET p == CHOOSE i \in colons : \A j \in colons : i <= j
            IN StrOk(UrlV(LowerText(SubSeq(s, 1, p - 1)), SubSeq(s, p + 1, Len(s))))

ParseableTypes == {"u8", "u16", "u64", "i8", "Url", "Level"}

\* <T as FromStr>::from_str for the types of impl_for_parseable!
FromStr(t, s) ==
    CASE t \in IntTypes -> ParseInt(t, s)
      [] t = "Url" -> ParseUrl(s)
      [] t = "Level" -> ParseLevel(s)

(***************************************************************************)
(* Leaf loading: FromEnvVar                                                *)
(***************************************************************************)
\* parse_env_if_present without its is_empty() test: the empty text goes to
\* the type's parser
parse_env_if_present_NoEmptyTest(t, env_var, e) ==
    Only({IF s.k = "Err"
          THEN Load(env_err(env_var, s.v), <<env_var>>)
          ELSE Only({Load(IF p.k = "Ok" THEN Ok(p.v) ELSE parse_error(p.v),
                          <<env_var>>) : p \in {FromStr(t, s.v)}})
          : s \in {EnvVar(e, env_var)}})

\* parse_env_if_present::<T>(env_var)
parse_env_if_present(t, env_var, e) ==
    Only({IF s.k = "Err"
          THEN Load(env_err(env_var, s.v), <<env_var>>)
          ELSE IF s.v = <<>>
          THEN Load(empty(env_var), <<env_var>>)
          ELSE Only({Load(IF p.k = "Ok" THEN Ok(p.v) ELSE parse_error(p.v),
                          <<env_var>>) : p \in {FromStr(t, s.v)}})
          : s \in {EnvVar(e, env_var)}})

StringV(s) == [k |-> "String", v |-> s]
BoolV(b) == [k |-> "bool", v |-> b]
VecV(xs) == [k |-> "Vec", v |-> xs]
\* Duration::from_millis
from_millis(m) == [k |-> "Duration",
                   v |-> [secs |-> m \div 1000, nanos |-> (m % 1000) * 1000000]]
SomeV(x) == [k |-> "Some", v |-> x]
NoneV == [k |-> "None", v |-> <<>>]
WrapV(w, x) == [k |-> w, v |-> x]
UnitV == [k |-> "Unit", v |-> <<>>]

Wrappers == {"Box", "Arc", "Cow"}

String_from_env_var_EmptyIfEmpty(env_var, e) ==
    Only({Load(IF s.k = "Ok" /\ s.v # <<>> THEN Ok(StringV(s.v)) ELSE empty(env_var),
               <<env_var>>)
          : s \in {EnvVar(e, env_var)}})

\* <String as FromEnvVar>::from_env_var
String_from_env_var(env_var, e) ==
    Only({Load(IF s.k = "Ok" THEN Ok(StringV(s.v)) ELSE empty(env_var),
               <<env_var>>)
          : s \in {EnvVar(e, env_var)}})

bool_from_env_var_Parses(env_var, e) ==
    Only({IF s.k = "Err" THEN Load(env_err(env_var, s.v), <<env_var>>)
          ELSE IF s.v = <<>> THEN Load(empty(env_var), <<env_var>>)
          ELSE Load(Ok(BoolV(s.v \notin {<<"0">>, <<"f", "a", "l", "s", "e">>})),
                    <<env_var>>)
          : s \in {EnvVar(e, env_var)}})

\* <bool as FromEnvVar>::from_env_var
bool_from_env_var(env_var, e) ==
    Only({IF s.k = "Err" THEN Load(env_err(env_var, s.v), <<env_var>>)
          ELSE Load(Ok(BoolV(s.v # <<>>)), <<env_var>>)
          : s \in {EnvVar(e, env_var)}})

\* <T as FromEnvVar>::from_env_var(env_var); a type is its wrappers, outermost
\* first, followed by the leaf type
RECURSIVE from_env_var(_, _, _)
from_env_var(T, env_var, e) ==
    LET t == Head(T) IN
    CASE t = "Option" ->
            Only({IF s.k = "Ok" /\ s.v = <<>> THEN Load(Ok(NoneV), <<env_var>>)
                  ELSE IF s.k = "Ok"
                  THEN Only({Load(IF IsOk(inner.r) THEN Ok(SomeV(inner.r.v))
                                                   ELSE inner.r,
                                  <<env_var>> \o inner.rd)
                             : inner \in {from_env_var(Tail(T), env_var, e)}})
                  ELSE Load(Ok(NoneV), <<env_var>>)
                  : s \in {EnvVar(e, env_var)}})
      [] t \in Wrappers ->
            Only({Load(IF IsOk(inner.r) THEN Ok(WrapV(t, inner.r.v)) ELSE inner.r,
                       inner.rd)
                  : inner \in {from_env_var(Tail(T), env_var, e)}})
      [] t = "String" -> String_from_env_var(env_var, e)
      [] t = "Duration" ->
            Only({Load(IF IsOk(inner.r) THEN Ok(from_millis(inner.r.v.v))
                                        ELSE inner.r,
                       inner.rd)
                  : inner \in {from_env_var(<<"u64">>, env_var, e)}})
      [] t = "Vec" ->
            Only({IF s.k = "Err" THEN Load(env_err(env_var, s.v), <<env_var>>)
                  ELSE IF s.v = <<>> THEN Load(Ok(VecV(<<>>)), <<env_var>>)
                  ELSE Only({Load(Ok(VecV([i \in 1..Len(parts) |->
                                              StringV(parts[i])])),
                                  <<env_var>>)
                             : parts \in {SplitComma(s.v)}})
                  : s \in {EnvVar(e, env_var)}})
      [] t = "bool" -> bool_from_env_var(env_var, e)
      [] t \in ParseableTypes -> parse_env_if_present(t, env_var, e)

\* a load with the number of times the default function was invoked
Fallback(r, rd, dc) == [r |-> r, rd |-> rd, dc |-> dc]

\* from_env_var_or recovering from every error, ParseError included
from_env_var_or_AnyError(T, env_var, default, e) ==
    Only({IF l.r.k = "Ok" THEN Fallback(Ok(l.r.v), l.rd, 0)
          ELSE Fallback(Ok(default), l.rd, 0)
          : l \in {from_env_var(T, env_var, e)}})

\* FromEnvVar::from_env_var_or(env_var, default)
from_env_var_or(T, env_var, default, e) ==
    Only({CASE l.r.k = "Ok" -> Fallback(Ok(l.r.v), l.rd, 0)
            [] l.r.k \in {"Empty", "EnvError"} -> Fallback(Ok(default), l.rd, 0)
            [] OTHER -> Fallback(l.r, l.rd, 0)
          : l \in {from_env_var(T, env_var, e)}})

\* from_env_var_or_else recovering from every error, ParseError included
from_env_var_or_else_AnyError(T, env_var, default, e) ==
    Only({IF l.r.k = "Ok" THEN Fallback(Ok(l.r.v), l.rd, 0)
          ELSE Fallback(Ok(default), l.rd, 1)
          : l \in {from_env_var(T, env_var, e)}})

\* FromEnvVar::from_env_var_or_else(env_var, default): default is the value
\* the function returns when it is invoked
from_env_var_or_else(T, env_var, default, e) ==
    Only({CASE l.r.k = "Ok" -> Fallback(Ok(l.r.v), l.rd, 0)
            [] l.r.k \in {"Empty", "EnvError"} -> Fallback(Ok(default), l.rd, 1)
            [] OTHER -> Fallback(l.r, l.rd, 0)
          : l \in {from_env_var(T, env_var, e)}})

\* the types with a Default impl, and <T as Default>::default()
RECURSIVE HasDefault(_)
HasDefault(T) ==
    CASE Head(T) = "Option" -> TRUE
      [] Head(T) \in {"Box", "Arc"} -> HasDefault(Tail(T))
      [] Head(T) = "Cow" -> HasDefault(Tail(T))
      [] OTHER -> Head(T) \in IntTypes \cup {"String", "bool", "Vec", "Duration"}

RECURSIVE DefaultOf(_)
DefaultOf(T) ==
    LET t == Head(T) IN
    CASE t = "Option" -> NoneV
      [] t \in Wrappers -> WrapV(t, DefaultOf(Tail(T)))
      [] t \in IntTypes -> IntV(t, 0)
      [] t = "String" -> StringV(<<>>)
      [] t = "bool" -> BoolV(FALSE)
      [] t = "Vec" -> VecV(<<>>)
      [] t = "Duration" -> from_millis(0)
      [] t = "OnceLock" -> WrapV("OnceLock", NoneV)

\* FromEnvVar::from_env_var_or_default(env_var)
from_env_var_or_default(T, env_var, e) ==
    from_env_var_or_else(T, env_var, DefaultOf(T), e)

(***************************************************************************)
(* FromEnvErr conversions                                                  *)
(***************************************************************************)
Panic(msg) == [k |-> "Panic", name |-> msg, cause |-> "", v |-> <<>>]

infallible_into_DropsCause(err) ==
    CASE err.k \in {"EnvError", "Empty"} -> Empty(err.name)
      [] err.k = "ParseError" -> Panic("unreachable")

\* FromEnvErr::<Infallible>::infallible_into
infallible_into(err) ==
    CASE err.k = "EnvError" -> EnvError(err.name, err.cause)
      [] err.k = "Empty" -> Empty(err.name)
      [] err.k = "ParseError" -> Panic("unreachable")

\* an error-enum variant wrapping a field's error
VariantV(enum, variant, inner) ==
    [k |-> "Variant", v |-> [enum |-> enum, name |-> variant, inner |-> inner]]

map_EveryError(err, enum, variant) ==
    ParseError(VariantV(enum, variant, err.v))

\* FromEnvErr::map(f) with f an enum-variant constructor
map(err, enum, variant) ==
    CASE err.k = "EnvError" -> EnvError(err.name, err.cause)
      [] err.k = "Empty" -> Empty(err.name)
      [] err.k = "ParseError" -> ParseError(VariantV(enum, variant, err.v))

\* FromEnvErr::from(other) with Inner::from an enum-variant constructor
from(other, enum, variant) ==
    CASE other.k = "EnvError" -> EnvError(other.name, other.cause)
      [] other.k = "Empty" -> Empty(other.name)
      [] other.k = "ParseError" -> ParseError(VariantV(enum, variant, other.v))

(***************************************************************************)
(* derive(FromEnv): the parsed fields of a struct and what the macro       *)
(* expands them to (from-env-derive/src/field.rs, lib.rs)                  *)
(***************************************************************************)
Field(name, ty, env_var, desc, optional, infallible, skip) ==
    [field_name |-> name, field_type |-> ty, env_var |-> env_var, desc |-> desc,
     optional |-> optional, infallible |-> infallible, skip |-> skip]

DigitChar(i) == CHOOSE c \in DOMAIN Digit : Digit[c] = i

\* Field::field_name(idx): the identifier, or field_{idx} in a tuple struct
field_name(f, idx) ==
    IF f.field_name.k = "Some" THEN f.field_name.v
    ELSE <<"f", "i", "e", "l", "d", "_", DigitChar(idx)>>

\* heck's to_pascal_case on a snake_case identifier: the words between the
\* underscores, each with its first letter in upper case
RECURSIVE to_pascal_case(_)
to_pascal_case(s) ==
    IF s = <<>> THEN <<>>
    ELSE IF Head(s) = "_" THEN to_pascal_case(Tail(s))
    ELSE LET stops == {i \in 1..Len(s) : s[i] = "_"}
             n == IF stops = {} THEN Len(s)
                  ELSE (CHOOSE i \in stops : \A j \in stops : i <= j) - 1
         IN <<ToUpper(s[1])>> \o LowerText(SubSeq(s, 2, n))
              \o to_pascal_case(SubSeq(s, n + 1, Len(s)))

enum_variant_name_Infallible(f, idx) ==
    IF f.skip THEN NoneV
    ELSE SomeV(to_pascal_case(field_name(f, idx)))

\* Field::enum_variant_name(idx)
enum_variant_name(f, idx) ==
    IF f.skip \/ f.infallible THEN NoneV
    ELSE SomeV(to_pascal_case(field_name(f, idx)))

\* Input::error_ident
error_ident(struct_name) == struct_name \o "EnvError"

\* Input::error_variants: the variants of the generated error enum, one per
\* field that has a variant name (fields i.. of the struct)
RECURSIVE error_variants(_, _)
error_variants(fields, i) ==
    IF i > Len(fields) THEN <<>>
    ELSE (IF enum_variant_name(fields[i], i - 1).k = "Some"
          THEN <<enum_variant_name(fields[i], i - 1).v>>
          ELSE <<>>)
         \o error_variants(fields, i + 1)

EnvItemInfo(var, description, optional) ==
    [var |-> var, description |-> description, optional |-> optional]

\* the structs deriving FromEnv: FromEnvTest and Nested (tests/macro.rs) and
\* Outer, which nests Nested a level deeper and reads FIELD4 and FFFFFF a
\* second time; Settings and SettingsOpt, which differ only in the optional
\* attribute of their first field and have a skip field that names a var
SettingsFields(port_optional) ==
    <<Field(SomeV(<<"p", "o", "r", "t">>), <<"u8">>, SomeV("FIELD1"),
            SomeV("The port, a u8"), port_optional, FALSE, FALSE),
      Field(SomeV(<<"n", "a", "m", "e">>), <<"Option", "String">>, SomeV("FIELD4"),
            SomeV("An optional name"), TRUE, TRUE, FALSE),
      Field(SomeV(<<"t", "a", "g", "s">>), <<"Vec">>, SomeV("FIELD3"),
            SomeV("Comma-separated tags"), FALSE, TRUE, FALSE),
      Field(SomeV(<<"c", "a", "c", "h", "e">>), <<"OnceLock">>, SomeV("FIELD2"),
            SomeV("Never read"), FALSE, FALSE, TRUE)>>

Structs ==
    [FromEnvTest |-> <<
        Field(SomeV(<<"t", "o", "n", "y">>), <<"u8">>, SomeV("FIELD1"),
              SomeV("Tony is cool and a u8"), FALSE, FALSE, FALSE),
        Field(SomeV(<<"c", "h", "a", "r", "l", "e", "s">>), <<"u64">>, SomeV("FIELD2"),
              SomeV("Charles is a u64"), FALSE, FALSE, FALSE),
        Field(SomeV(<<"p", "a", "t", "r", "i", "c", "k">>), <<"String">>, SomeV("FIELD3"),
              SomeV("Patrick is a String"), FALSE, TRUE, FALSE),
        Field(SomeV(<<"o", "l", "i", "v", "e", "r">>), <<"Option", "String">>,
              SomeV("FIELD4"), SomeV("Oliver is an Option<String>"), TRUE, TRUE, FALSE),
        Field(SomeV(<<"m", "e", "m", "o">>), <<"OnceLock">>, NoneV, NoneV,
              FALSE, FALSE, TRUE)>>,
     Nested |-> <<
        Field(SomeV(<<"f", "f", "f", "f", "f", "f">>), <<"String">>, SomeV("FFFFFF"),
              SomeV("This is a guy named ffffff"), FALSE, FALSE, FALSE),
        Field(SomeV(<<"f", "r", "o", "m", "_", "e", "n", "v", "_", "t", "e", "s", "t">>),
              <<"FromEnvTest">>, NoneV, NoneV, FALSE, FALSE, FALSE)>>,
     Outer |-> <<
        Field(SomeV(<<"f", "i", "r", "s", "t">>), <<"Option", "u8">>, SomeV("FIELD4"),
              SomeV("An optional u8"), TRUE, FALSE, FALSE),
        Field(SomeV(<<"n", "e", "s", "t", "e", "d">>), <<"Box", "Nested">>, NoneV, NoneV,
              FALSE, FALSE, FALSE),
        Field(SomeV(<<"t", "a", "g", "s">>), <<"Vec">>, SomeV("FFFFFF"),
              SomeV("Comma-separated tags"), FALSE, TRUE, FALSE)>>,
     Settings |-> SettingsFields(FALSE),
     SettingsOpt |-> SettingsFields(TRUE)]

DerivedNames == DOMAIN Structs

StructV(name, values) == [k |-> "Struct", v |-> [ty |-> name, fields |-> values]]

OTEL_ENDPOINT == "OTEL_EXPORTER_OTLP_ENDPOINT"
OTEL_LEVEL == "OTEL_LEVEL"
OTEL_TIMEOUT == "OTEL_TIMEOUT"
OTEL_ENVIRONMENT == "OTEL_ENVIRONMENT_NAME"
TRACING_METRICS_PORT == "TRACING_METRICS_PORT"
DefaultPort == 9000
FromNonePort == 9000
DefaultTimeoutMs == 1000

InventoryV(items) == [k |-> "Inventory", v |-> items]

\* FromEnv::inventory(): the generated one (Field::expand_env_item_info per
\* field, in order), the wrappers' and the hand-written ones
RECURSIVE inventory(_)
RECURSIVE InventoryOfFields(_, _)
InventoryOfFields_Merged(fields, i) ==
    IF i > Len(fields) THEN <<>>
    ELSE LET f == fields[i]
             rest == InventoryOfFields(fields, i + 1)
             here == IF f.skip THEN <<>>
                     ELSE IF f.env_var.k = "Some"
                     THEN <<EnvItemInfo(f.env_var.v,
                                        IF f.desc.k = "Some" THEN f.desc.v ELSE "",
                                        f.optional)>>
                     ELSE inventory(f.field_type)
         IN SelectSeq(here, LAMBDA d : \A j \in 1..Len(rest) : rest[j].var # d.var)
            \o rest

InventoryOfFields_RequiredOnly(fields, i) ==
    IF i > Len(fields) THEN <<>>
    ELSE LET f == fields[i] IN
         (IF f.skip \/ f.optional THEN <<>>
          ELSE IF f.env_var.k = "Some"
          THEN <<EnvItemInfo(f.env_var.v,
                             IF f.desc.k = "Some" THEN f.desc.v ELSE "",
                             f.optional)>>
          ELSE inventory(f.field_type))
         \o InventoryOfFields(fields, i + 1)

InventoryOfFields(fields, i) ==
    IF i > Len(fields) THEN <<>>
    ELSE LET f == fields[i] IN
         (IF f.skip THEN <<>>
          ELSE IF f.env_var.k = "Some"
          THEN <<EnvItemInfo(f.env_var.v,
                             IF f.desc.k = "Some" THEN f.desc.v ELSE "",
                             f.optional)>>
          ELSE inventory(f.field_type))
         \o InventoryOfFields(fields, i + 1)

inventory(T) ==
    LET t == Head(T) IN
    CASE t \in {"Option", "Box", "Arc", "Cow"} -> inventory(Tail(T))
      [] t = "OtelConfig" ->
            <<EnvItemInfo(OTEL_ENDPOINT,
                 "OTLP endpoint to send traces to, a url. If missing, disables OTLP exporting.",
                 TRUE),
              EnvItemInfo(OTEL_LEVEL,
                 "OTLP level to export, defaults to DEBUG. Permissible values are: TRACE, DEBUG, INFO, WARN, ERROR, OFF",
                 TRUE),
              EnvItemInfo(OTEL_TIMEOUT, "OTLP timeout in milliseconds", TRUE),
              EnvItemInfo(OTEL_ENVIRONMENT, "OTLP environment name, a string", TRUE)>>
      [] t = "MetricsConfig" ->
            <<EnvItemInfo(TRACING_METRICS_PORT,
                 "Port on which to serve metrics, u16, defaults to 9000", TRUE)>>
      [] t \in DerivedNames -> InventoryOfFields(Structs[t], 1)

\* the value of a MetricsConfig with the given port (From<u16>)
MetricsV(port) == StructV("MetricsConfig", <<IntV("u16", port)>>)

\* FromEnv::from_env(): the generated one (Field::expand_item_from_env per
\* field, in order, each followed by `?`), the wrappers' and the hand-written
\* ones; the result and the variables read, in order
RECURSIVE from_env(_, _)
RECURSIVE LoadFields(_, _, _, _, _)
RECURSIVE LoadField(_, _)

LoadField_OptionalIsDefault(f, e) ==
    IF f.skip \/ f.optional THEN Load(Ok(DefaultOf(f.field_type)), <<>>)
    ELSE IF f.env_var.k = "Some" THEN from_env_var(f.field_type, f.env_var.v, e)
    ELSE from_env(f.field_type, e)

LoadField_SkipReadsVar(f, e) ==
    IF f.skip /\ f.env_var.k = "Some"
    THEN Only({ IF x.k = "Err" THEN Load(EnvError(f.env_var.v, x.v), <<f.env_var.v>>)
                ELSE Load(Ok(DefaultOf(f.field_type)), <<f.env_var.v>>)
                : x \in {EnvVar(e, f.env_var.v)} })
    ELSE IF f.skip THEN Load(Ok(DefaultOf(f.field_type)), <<>>)
    ELSE IF f.env_var.k = "Some" THEN from_env_var(f.field_type, f.env_var.v, e)
    ELSE from_env(f.field_type, e)

LoadField_OptionalAbsorbs(f, e) ==
    IF f.skip THEN Load(Ok(DefaultOf(f.field_type)), <<>>)
    ELSE Only({ IF f.optional /\ l.r.k \in {"EnvError", "Empty"}
                THEN Load(Ok(DefaultOf(f.field_type)), l.rd)
                ELSE l
                : l \in {IF f.env_var.k = "Some"
                         THEN from_env_var(f.field_type, f.env_var.v, e)
                         ELSE from_env(f.field_type, e)} })

LoadField_InfallibleDefaults(f, e) ==
    IF f.skip THEN Load(Ok(DefaultOf(f.field_type)), <<>>)
    ELSE IF f.env_var.k = "Some"
    THEN IF f.infallible /\ HasDefault(f.field_type)
         THEN Only({ Load(l.r, l.rd)
                     : l \in {from_env_var_or_default(f.field_type, f.env_var.v, e)} })
         ELSE from_env_var(f.field_type, f.env_var.v, e)
    ELSE from_env(f.field_type, e)

\* one field's fn_invoc
LoadField(f, e) ==
    IF f.skip THEN Load(Ok(DefaultOf(f.field_type)), <<>>)
    ELSE IF f.env_var.k = "Some" THEN from_env_var(f.field_type, f.env_var.v, e)
    ELSE from_env(f.field_type, e)

\* one field's map_line
MapLine(f, idx, struct_name, err) ==
    IF f.infallible THEN infallible_into(err)
    ELSE map(err, error_ident(struct_name), enum_variant_name(f, idx).v)

LoadFields_ReadsOn(struct_name, i, e, values, rd) ==
    IF i > Len(Structs[struct_name]) THEN Load(Ok(StructV(struct_name, values)), rd)
    ELSE Only({ IF IsOk(l.r)
                THEN LoadFields(struct_name, i + 1, e, Append(values, l.r.v), rd \o l.rd)
                ELSE Load(MapLine(Structs[struct_name][i], i - 1, struct_name, l.r),
                          LoadFields(struct_name, i + 1, e, values, rd \o l.rd).rd)
                : l \in {LoadField(Structs[struct_name][i], e)} })

LoadFields(struct_name, i, e, values, rd) ==
    IF i > Len(Structs[struct_name]) THEN Load(Ok(StructV(struct_name, values)), rd)
    ELSE Only({ IF IsOk(l.r)
                THEN LoadFields(struct_name, i + 1, e, Append(values, l.r.v), rd \o l.rd)
                ELSE Load(MapLine(Structs[struct_name][i], i - 1, struct_name, l.r),
                          rd \o l.rd)
                : l \in {LoadField(Structs[struct_name][i], e)} })

OtelConfig_from_env_Strict(e) ==
    Only({ IF IsErr(endpoint.r) THEN endpoint
           ELSE Only({ IF IsErr(level.r) /\ level.r.k # "Empty"
                       THEN Load(level.r, endpoint.rd \o level.rd)
                       ELSE Load(Ok(StructV("OtelConfig",
                          <<endpoint.r.v,
                            IF IsOk(level.r) THEN level.r.v ELSE LevelV("DEBUG"),
                            IF IsOk(timeout.r) THEN timeout.r.v
                            ELSE from_millis(DefaultTimeoutMs),
                            IF IsOk(environment.r) THEN environment.r.v
                            ELSE StringV(<<"u", "n", "k", "n", "o", "w", "n">>)>>)),
                          endpoint.rd \o level.rd \o timeout.rd \o environment.rd)
                       : level \in {from_env_var(<<"Level">>, OTEL_LEVEL, e)},
                         timeout \in {from_env_var(<<"Duration">>, OTEL_TIMEOUT, e)},
                         environment \in {from_env_var(<<"String">>, OTEL_ENVIRONMENT, e)} })
           : endpoint \in {from_env_var(<<"Url">>, OTEL_ENDPOINT, e)} })

OtelConfig_from_env_EmptyIsUnknown(e) ==
    Only({ IF IsErr(endpoint.r) THEN endpoint
           ELSE Only({ Load(Ok(StructV("OtelConfig",
                          <<endpoint.r.v,
                            IF IsOk(level.r) THEN level.r.v ELSE LevelV("DEBUG"),
                            IF IsOk(timeout.r) THEN timeout.r.v
                            ELSE from_millis(DefaultTimeoutMs),
                            IF IsOk(environment.r) /\ environment.r.v # StringV(<<>>)
                            THEN environment.r.v
                            ELSE StringV(<<"u", "n", "k", "n", "o", "w", "n">>)>>)),
                          endpoint.rd \o level.rd \o timeout.rd \o environment.rd)
                       : level \in {from_env_var(<<"Level">>, OTEL_LEVEL, e)},
                         timeout \in {from_env_var(<<"Duration">>, OTEL_TIMEOUT, e)},
                         environment \in {from_env_var(<<"String">>, OTEL_ENVIRONMENT, e)} })
           : endpoint \in {from_env_var(<<"Url">>, OTEL_ENDPOINT, e)} })

\* OtelConfig::from_env
OtelConfig_from_env(e) ==
    Only({ IF IsErr(endpoint.r) THEN endpoint
           ELSE Only({ Load(Ok(StructV("OtelConfig",
                          <<endpoint.r.v,
                            IF IsOk(level.r) THEN level.r.v ELSE LevelV("DEBUG"),
                            IF IsOk(timeout.r) THEN timeout.r.v
                            ELSE from_millis(DefaultTimeoutMs),
                            IF IsOk(environment.r) THEN environment.r.v
                            ELSE StringV(<<"u", "n", "k", "n", "o", "w", "n">>)>>)),
                          endpoint.rd \o level.rd \o timeout.rd \o environment.rd)
                       : level \in {from_env_var(<<"Level">>, OTEL_LEVEL, e)},
                         timeout \in {from_env_var(<<"Duration">>, OTEL_TIMEOUT, e)},
                         environment \in {from_env_var(<<"String">>, OTEL_ENVIRONMENT, e)} })
           : endpoint \in {from_env_var(<<"Url">>, OTEL_ENDPOINT, e)} })

\* OtelConfig::load: from_env().ok()
OtelConfig_load(e) ==
    Only({ Load(IF IsOk(l.r) THEN SomeV(l.r.v) ELSE NoneV, l.rd)
           : l \in {OtelConfig_from_env(e)} })

\* <MetricsConfig as Default>::default
MetricsConfig_default == MetricsV(DefaultPort)

\* <MetricsConfig as From<Option<u16>>>::from
MetricsConfig_from(port) ==
    MetricsV(IF port.k = "Some" THEN port.v ELSE FromNonePort)

MetricsConfig_from_env_Propagates(e) ==
    Only({ Load(IF IsOk(port.r) THEN Ok(MetricsV(port.r.v.v))
                ELSE IF port.r.k = "ParseError" THEN port.r
                ELSE Ok(MetricsConfig_default),
                port.rd)
           : port \in {from_env_var(<<"u16">>, TRACING_METRICS_PORT, e)} })

\* MetricsConfig::from_env
MetricsConfig_from_env(e) ==
    Only({ Load(Ok(IF IsOk(port.r) THEN MetricsV(port.r.v.v) ELSE MetricsConfig_default),
                port.rd)
           : port \in {from_env_var(<<"u16">>, TRACING_METRICS_PORT, e)} })

\* init_metrics, with the statics g and with the port busy or free: the
\* result, the reads and the statics afterwards. install() binds the
\* listener and then sets the global recorder; it fails when the port
\* cannot be bound or a recorder is already set.
init_metrics(e, g, busy) ==
    Only({ IF IsErr(cfg.r)
           THEN [r |-> Panic("called Result::unwrap() on an Err value"),
                 rd |-> cfg.rd, g |-> g]
           ELSE IF busy \/ g.recorder.k = "Some"
           THEN [r |-> Panic("failed to install prometheus exporter"),
                 rd |-> cfg.rd, g |-> g]
           ELSE [r |-> Ok(UnitV), rd |-> cfg.rd,
                 g |-> [g EXCEPT !.recorder = SomeV(cfg.r.v.v.fields[1].v)]]
         : cfg \in {MetricsConfig_from_env(e)} })

Option_from_env_AbsorbsAll(T, e) ==
    Only({ IF IsOk(l.r) THEN Load(Ok(SomeV(l.r.v)), l.rd) ELSE Load(Ok(NoneV), l.rd)
           : l \in {from_env(T, e)} })

\* <Option<T> as FromEnv>::from_env
Option_from_env(T, e) ==
    Only({ CASE IsOk(l.r) -> Load(Ok(SomeV(l.r.v)), l.rd)
             [] l.r.k \in {"Empty", "EnvError"} -> Load(Ok(NoneV), l.rd)
             [] OTHER -> l
           : l \in {from_env(T, e)} })

Wrapper_from_env_LosesError(w, T, e) ==
    Only({ IF IsOk(l.r) THEN Load(Ok(WrapV(w, l.r.v)), l.rd)
           ELSE Load(Empty(l.r.name), l.rd)
           : l \in {from_env(T, e)} })

\* <Box<T> / Arc<T> / Cow<U> as FromEnv>::from_env: T::from_env().map(W::new)
Wrapper_from_env(w, T, e) ==
    Only({ IF IsOk(l.r) THEN Load(Ok(WrapV(w, l.r.v)), l.rd) ELSE l
           : l \in {from_env(T, e)} })

from_env(T, e) ==
    LET t == Head(T) IN
    CASE t = "Option" -> Option_from_env(Tail(T), e)
      [] t \in Wrappers -> Wrapper_from_env(t, Tail(T), e)
      [] t = "OtelConfig" -> OtelConfig_from_env(e)
      [] t = "MetricsConfig" -> MetricsConfig_from_env(e)
      [] t \in DerivedNames -> LoadFields(t, 1, e, <<>>, <<>>)

MissingV(items) == [k |-> "Err", name |-> "", cause |-> "", v |-> InventoryV(items)]

RECURSIVE Missing(_, _, _)
Missing_FirstOnly(items, i, e) ==
    IF i > Len(items) THEN <<>>
    ELSE IF EnvVar(e, items[i].var).k = "Err" /\ ~items[i].optional
    THEN <<items[i]>>
    ELSE Missing(items, i + 1, e)

Missing_UnsetOnly(items, i, e) ==
    IF i > Len(items) THEN <<>>
    ELSE (IF EnvVar(e, items[i].var) = [k |-> "Err", v |-> "NotPresent"]
             /\ ~items[i].optional
          THEN <<items[i]>> ELSE <<>>)
         \o Missing(items, i + 1, e)

\* the loop of FromEnv::check_inventory over descriptors i.. of the inventory
Missing(items, i, e) ==
    IF i > Len(items) THEN <<>>
    ELSE (IF EnvVar(e, items[i].var).k = "Err" /\ ~items[i].optional
          THEN <<items[i]>> ELSE <<>>)
         \o Missing(items, i + 1, e)

\* FromEnv::check_inventory(): the default method; the wrappers delegate to it
check_inventory(T, e) ==
    Only({ Load(IF Missing(items, 1, e) = <<>> THEN Ok(UnitV)
                ELSE MissingV(Missing(items, 1, e)),
                [i \in 1..Len(items) |-> items[i].var])
           : items \in {inventory(T)} })

(***************************************************************************)
(* Leaf loading as a state machine: the environment is written by the      *)
(* caller (std::env::set_var / remove_var, as the tests do) and read by    *)
(* the FromEnvVar operations.  The program is single-threaded (spec 5):    *)
(* an operation runs when the caller is idle, and its result stays until   *)
(* the caller has taken it.                                                *)
(***************************************************************************)
\* the process-wide statics the operations can touch: the global tracing
\* subscriber, the global metrics recorder with the port of its listener,
\* the number of OTLP providers built so far (none of them set at start)
NoGlobals == [subscriber |-> NoneV, recorder |-> NoneV, providers |-> 0]

NoCall == [op |-> "none", ty |-> <<>>, name |-> "", d |-> NoneV, conv |-> 0]
LeafCall(op, T, n, d) == [op |-> op, ty |-> T, name |-> n, d |-> d, conv |-> 0]

\* the number of writes the caller makes to the environment in one run
MaxWrites == 2

\* the names and texts the leaf operations are exercised on
LeafNames == {"U8_", "Duration"}
LeafTexts == {<<>>, <<"4", "2">>, <<"3", "0", "0", "0", "0">>, <<"-", "1">>,
              <<"h", ":", "x">>, <<"W", "a", "r", "n">>, <<"a", ",", "b">>,
              <<"f", "a", "l", "s", "e">>}
LeafBindings == {Unset, NonUnicode} \cup {Bound(s) : s \in LeafTexts}

BaseTypes == {<<"u8">>, <<"u16">>, <<"u64">>, <<"i8">>, <<"Url">>, <<"Level">>,
              <<"Duration">>, <<"String">>, <<"bool">>, <<"Vec">>}
LeafTypes == BaseTypes \cup {<<"Option", "u8">>, <<"Option", "String">>,
                             <<"Box", "u8">>, <<"Arc", "String">>, <<"Cow", "Url">>}

\* a value of the type other than its Default, used as the caller's default
RECURSIVE SampleOf(_)
SampleOf(T) ==
    LET t == Head(T) IN
    CASE t = "Option" -> SomeV(SampleOf(Tail(T)))
      [] t \in Wrappers -> WrapV(t, SampleOf(Tail(T)))
      [] t \in IntTypes -> IntV(t, 7)
      [] t = "Url" -> UrlV(<<"d">>, <<"d">>)
      [] t = "Level" -> LevelV("DEBUG")
      [] t = "Duration" -> from_millis(1000)
      [] t = "String" -> StringV(<<"u", "n", "k", "n", "o", "w", "n">>)
      [] t = "bool" -> BoolV(TRUE)
      [] t = "Vec" -> VecV(<<StringV(<<"d">>)>>)

InitLeaf ==
    /\ env = [n \in LeafNames |-> Unset]
    /\ writes = 0
    /\ call = NoCall
    /\ res = Ok(NoneV)
    /\ reads = <<>>
    /\ defaultCalls = 0
    /\ globals = NoGlobals

\* std::env::set_var(n, text) / remove_var(n) / a non-Unicode value set
SetVar(n, b) ==
    /\ call = NoCall
    /\ writes < MaxWrites
    /\ env[n] # b
    /\ env' = [env EXCEPT ![n] = b]
    /\ writes' = writes + 1
    /\ UNCHANGED <<globals, call, res, reads, defaultCalls>>

\* the caller takes the result of the operation that returned
TakeResult ==
    /\ call # NoCall
    /\ call.op = "trace:init_tracing" => IsErr(res)
    /\ call.op # "Option::from_env_var:read"
    /\ call' = NoCall
    /\ res' = Ok(NoneV)
    /\ reads' = <<>>
    /\ defaultCalls' = 0
    /\ UNCHANGED <<globals, env, writes>>

CallFromEnvVar(T, n) ==
    /\ call = NoCall
    /\ \E l \in {from_env_var(T, n, env)} :
        /\ call' = LeafCall("from_env_var", T, n, NoneV)
        /\ res' = l.r
        /\ reads' = l.rd
        /\ defaultCalls' = 0
        /\ UNCHANGED <<globals, env, writes>>

CallFromEnvVarOr(T, n, d) ==
    /\ call = NoCall
    /\ \E l \in {from_env_var_or(T, n, d, env)} :
        /\ call' = LeafCall("from_env_var_or", T, n, d)
        /\ res' = l.r
        /\ reads' = l.rd
        /\ defaultCalls' = l.dc
        /\ UNCHANGED <<globals, env, writes>>

CallFromEnvVarOrElse(T, n, d) ==
    /\ call = NoCall
    /\ \E l \in {from_env_var_or_else(T, n, d, env)} :
        /\ call' = LeafCall("from_env_var_or_else", T, n, d)
        /\ res' = l.r
        /\ reads' = l.rd
        /\ defaultCalls' = l.dc
        /\ UNCHANGED <<globals, env, writes>>

CallFromEnvVarOrDefault(T, n) ==
    /\ call = NoCall
    /\ HasDefault(T)
    /\ \E l \in {from_env_var_or_default(T, n, env)} :
        /\ call' = LeafCall("from_env_var_or_default", T, n, NoneV)
        /\ res' = l.r
        /\ reads' = l.rd
        /\ defaultCalls' = l.dc
        /\ UNCHANGED <<globals, env, writes>>

\* <integer as Display>::fmt, as val.to_string() uses it: the decimal
\* digits, after a minus sign for a negative number
RECURSIVE to_string(_)
to_string(v) ==
    IF v < 0 THEN <<"-">> \o to_string(-v)
    ELSE IF v < 10 THEN <<DigitChar(v)>>
    ELSE to_string(v \div 10) \o <<DigitChar(v % 10)>>

\* the numbers the tests set a variable to
SampleValues == {0, 42, 127, 128, 255, 256, 30000, -42, -128, -129}

\* test::set(env, &val): std::env::set_var(env, val.to_string())
SetValue(n, v) == SetVar(n, Bound(to_string(v)))

NextLeaf ==
    \/ \E n \in LeafNames, b \in LeafBindings : SetVar(n, b)
    \/ \E n \in LeafNames, v \in SampleValues : SetValue(n, v)
    \/ \E T \in LeafTypes, n \in LeafNames : CallFromEnvVar(T, n)
    \/ \E T \in LeafTypes, n \in LeafNames : CallFromEnvVarOr(T, n, SampleOf(T))
    \/ \E T \in LeafTypes, n \in LeafNames : CallFromEnvVarOrElse(T, n, SampleOf(T))
    \/ \E T \in LeafTypes, n \in LeafNames : CallFromEnvVarOrDefault(T, n)
    \/ TakeResult

SpecLeaf == InitLeaf /\ [][NextLeaf]_vars

(***************************************************************************)
(* Composite loading as a state machine.  A run starts in the environment  *)
(* of one of the programs that load a composite (the derive tests, the     *)
(* OTLP setup, the metrics setup), the caller writes the environment and   *)
(* calls inventory(), check_inventory() and from_env(); an error returned  *)
(* by from_env() may be converted further by the caller.                   *)
(***************************************************************************)
CompositeCall(op, T) == LeafCall(op, T, "", NoneV)

DeriveNames == {"FIELD1", "FIELD2", "FIELD3", "FIELD4", "FFFFFF"}
OtelNames == {OTEL_ENDPOINT, OTEL_LEVEL, OTEL_TIMEOUT, OTEL_ENVIRONMENT}
MetricsNames == {TRACING_METRICS_PORT}

\* the environment load_nested sets up
LoadNestedEnv ==
    [n \in DeriveNames |->
        CASE n = "FIELD1" -> Bound(<<"1">>)
          [] n = "FIELD2" -> Bound(<<"2">>)
          [] n = "FIELD3" -> Bound(<<"3">>)
          [] n = "FIELD4" -> Bound(<<"4">>)
          [] n = "FFFFFF" -> Bound(<<"5">>)]

\* the environment with an OTLP endpoint configured
OtelEnv ==
    [n \in OtelNames |->
        IF n = OTEL_ENDPOINT THEN Bound(<<"h", "t", "t", "p", ":", "/", "/", "h">>)
        ELSE Unset]

Programs ==
    {[names |-> DeriveNames,
      bases |-> {[n \in DeriveNames |-> Unset], LoadNestedEnv},
      types |-> {<<"FromEnvTest">>, <<"Nested">>, <<"Outer">>, <<"Option", "Nested">>,
                 <<"Settings">>, <<"SettingsOpt">>, <<"Box", "FromEnvTest">>,
                 <<"Cow", "Settings">>}],
     [names |-> OtelNames,
      bases |-> {[n \in OtelNames |-> Unset], OtelEnv},
      types |-> {<<"OtelConfig">>, <<"Arc", "OtelConfig">>}],
     [names |-> MetricsNames,
      bases |-> {[n \in MetricsNames |-> Unset]},
      types |-> {<<"MetricsConfig">>}]}

\* the composite types loaded by the program that owns the environment e
TypesOf(e) == UNION {p.types : p \in {q \in Programs : q.names = DOMAIN e}}

CompositeTypes == UNION {p.types : p \in Programs}

CompositeTexts == {<<>>, <<"1">>, <<"h", ":", "x">>}
CompositeBindings == {Unset, NonUnicode} \cup {Bound(s) : s \in CompositeTexts}

\* what the caller writes to the variable n: FIELD1, the u8 input, is also
\* set to a number out of the range of u8
BindingsOf(n) ==
    IF n = "FIELD1" THEN CompositeBindings \cup {Bound(<<"3", "0", "0">>)}
    ELSE IF n = TRACING_METRICS_PORT
    THEN CompositeBindings \cup {Bound(<<"6", "5", "5", "3", "5">>),
                                 Bound(<<"6", "5", "5", "3", "6">>),
                                 Bound(<<"+", "8", "0">>), Bound(<<"-", "1">>)}
    ELSE CompositeBindings

\* the leaf types behind an ownership wrapper that the caller loads from the
\* variables of the program
WrappedLeafTypes == {<<"Box", "u8">>, <<"Arc", "String">>, <<"Cow", "Url">>}

\* the number of conversions the caller applies to one returned error
MaxConv == 2

Init ==
    /\ env \in UNION {p.bases : p \in Programs}
    /\ writes = 0
    /\ call = NoCall
    /\ res = Ok(NoneV)
    /\ reads = <<>>
    /\ defaultCalls = 0
    /\ globals = NoGlobals

CallFromEnv_TakesVars(T) ==
    /\ call = NoCall
    /\ T \in TypesOf(env)
    /\ \E l \in {from_env(T, env)} :
        /\ call' = CompositeCall("from_env", T)
        /\ res' = l.r
        /\ reads' = l.rd
        /\ defaultCalls' = 0
        /\ env' = [n \in DOMAIN env |->
                      IF \E i \in 1..Len(l.rd) : l.rd[i] = n THEN Unset ELSE env[n]]
        /\ UNCHANGED <<globals, writes>>

\* the program calls T::from_env()
CallFromEnv(T) ==
    /\ call = NoCall
    /\ T \in TypesOf(env)
    /\ \E l \in {from_env(T, env)} :
        /\ call' = CompositeCall("from_env", T)
        /\ res' = l.r
        /\ reads' = l.rd
        /\ defaultCalls' = 0
        /\ UNCHANGED <<globals, env, writes>>

CallInventory(T) ==
    /\ call = NoCall
    /\ T \in TypesOf(env)
    /\ call' = CompositeCall("inventory", T)
    /\ res' = Ok(InventoryV(inventory(T)))
    /\ reads' = <<>>
    /\ defaultCalls' = 0
    /\ UNCHANGED <<globals, env, writes>>

CallCheckInventory(T) ==
    /\ call = NoCall
    /\ T \in TypesOf(env)
    /\ \E l \in {check_inventory(T, env)} :
        /\ call' = CompositeCall("check_inventory", T)
        /\ res' = l.r
        /\ reads' = l.rd
        /\ defaultCalls' = 0
        /\ UNCHANGED <<globals, env, writes>>

\* the caller converts the error from_env() returned: e.map(CallerError::Load)
CallMap ==
    /\ call.op = "from_env"
    /\ IsErr(res)
    /\ call.conv < MaxConv
    /\ call' = [call EXCEPT !.conv = @ + 1]
    /\ res' = map(res, "CallerError", <<"L", "o", "a", "d">>)
    /\ UNCHANGED <<globals, env, writes, reads, defaultCalls>>

\* the caller converts the error from_env() returned: FromEnvErr::from(e),
\* with From<_> for CallerError building CallerError::Load
CallFrom ==
    /\ call.op = "from_env"
    /\ IsErr(res)
    /\ call.conv < MaxConv
    /\ call' = [call EXCEPT !.conv = @ + 1]
    /\ res' = from(res, "CallerError", <<"L", "o", "a", "d">>)
    /\ UNCHANGED <<globals, env, writes, reads, defaultCalls>>

\* the ports handed to MetricsConfig::from
PortOptions == {NoneV, SomeV(0), SomeV(8080), SomeV(65535)}

\* the program calls MetricsConfig::from(port)
CallMetricsFrom(port) ==
    /\ call = NoCall
    /\ <<"MetricsConfig">> \in TypesOf(env)
    /\ call' = LeafCall("MetricsConfig::from", <<"MetricsConfig">>, "", port)
    /\ res' = Ok(MetricsConfig_from(port))
    /\ reads' = <<>>
    /\ defaultCalls' = 0
    /\ UNCHANGED <<globals, env, writes>>

\* the program calls init_metrics(), the port of the listener being in use
\* by another process or not
CallInitMetrics(busy) ==
    /\ call = NoCall
    /\ TRACING_METRICS_PORT \in DOMAIN env
    /\ \E l \in {init_metrics(env, globals, busy)} :
        /\ call' = CompositeCall("init_metrics", <<"MetricsConfig">>)
        /\ res' = l.r
        /\ reads' = l.rd
        /\ globals' = l.g
        /\ defaultCalls' = 0
        /\ UNCHANGED <<env, writes>>

\* the program calls OtelConfig::load()
CallLoad ==
    /\ call = NoCall
    /\ <<"OtelConfig">> \in TypesOf(env)
    /\ \E l \in {OtelConfig_load(env)} :
        /\ call' = CompositeCall("load", <<"OtelConfig">>)
        /\ res' = Ok(l.r)
        /\ reads' = l.rd
        /\ defaultCalls' = 0
        /\ UNCHANGED <<globals, env, writes>>

Next ==
    \/ \E n \in DOMAIN env : \E b \in BindingsOf(n) : SetVar(n, b)
    \/ \E T \in CompositeTypes : CallFromEnv(T)
    \/ \E T \in CompositeTypes : CallInventory(T)
    \/ \E T \in CompositeTypes : CallCheckInventory(T)
    \/ \E T \in WrappedLeafTypes, n \in DOMAIN env : CallFromEnvVar(T, n)
    \/ \E T \in WrappedLeafTypes, n \in DOMAIN env : CallFromEnvVarOr(T, n, SampleOf(T))
    \/ \E T \in WrappedLeafTypes, n \in DOMAIN env :
          CallFromEnvVarOrElse(T, n, SampleOf(T))
    \/ \E T \in WrappedLeafTypes, n \in DOMAIN env : CallFromEnvVarOrDefault(T, n)
    \/ CallLoad
    \/ \E port \in PortOptions : CallMetricsFrom(port)
    \/ \E busy \in BOOLEAN : CallInitMetrics(busy)
    \/ CallMap
    \/ CallFrom
    \/ TakeResult

Spec == Init /\ [][Next]_vars

(***************************************************************************)
(* Claims about leaf loading (checked under SpecLeaf)                      *)
(***************************************************************************)
Returned(op) == call.op = op

\* the cause std::env::var reports for a binding that cannot be read
CauseOf(b) == IF b.k = "Unset" THEN "NotPresent" ELSE "NotUnicode"

\* <bool as FromStr>::from_str, the parse the bool leaf does not use
ParseBool(s) ==
    CASE s = <<"t", "r", "u", "e">> -> StrOk(BoolV(TRUE))
      [] s = <<"f", "a", "l", "s", "e">> -> StrOk(BoolV(FALSE))
      [] OTHER -> StrErr([k |-> "ParseBoolError", v |-> "invalid"])

\* the textual parse of each leaf type, as a Result<T, FromEnvErr<T::Error>>
TextParse(t, s) ==
    LET p == CASE t \in ParseableTypes -> FromStr(t, s)
               [] t = "Duration" ->
                    IF ParseInt("u64", s).k = "Ok"
                    THEN StrOk(from_millis(ParseInt("u64", s).v.v))
                    ELSE ParseInt("u64", s)
               [] t = "String" -> StrOk(StringV(s))
               [] t = "bool" -> ParseBool(s)
               [] t = "Vec" -> StrOk(VecV([i \in 1..Len(SplitComma(s)) |->
                                              StringV(SplitComma(s)[i])]))
    IN IF p.k = "Ok" THEN Ok(p.v) ELSE ParseError(p.v)

C3_FallbackOnlyProvenance ==
    (call.op \in {"from_env_var_or", "from_env_var_or_else",
                  "from_env_var_or_default"}) =>
        LET direct == from_env_var(call.ty, call.name, env).r IN
        /\ direct.k = "ParseError" => (res = direct /\ defaultCalls = 0)
        /\ direct.k = "Ok" => (res = direct /\ defaultCalls = 0)
        /\ Returned("from_env_var_or_else") =>
              /\ defaultCalls = (IF direct.k \in {"EnvError", "Empty"} THEN 1 ELSE 0)
              /\ defaultCalls = 1 => res = Ok(call.d)
        /\ Returned("from_env_var_or_default") =>
              /\ res = from_env_var_or(call.ty, call.name, DefaultOf(call.ty), env).r
              /\ defaultCalls = (IF direct.k \in {"EnvError", "Empty"} THEN 1 ELSE 0)

\* C3 witness: from_env_var_or_default of a u8 bound to "30000" failed with
\* the parse error and did not substitute 0
C3_Witness ==
    /\ Returned("from_env_var_or_default")
    /\ call.ty = <<"u8">>
    /\ res = ParseError(ParseIntError("PosOverflow"))
    /\ defaultCalls = 0

(***************************************************************************)
(* Claims about composite loading (checked under Spec).  The reference     *)
(* they are stated against is the flat list of a composite's leaf inputs   *)
(* in declaration order: each with its leaf type, the path of error-enum   *)
(* variants from the outermost composite down to it, and the value the     *)
(* composite falls back to when the leaf load fails, if it has one.        *)
(***************************************************************************)
Leaf(var, ty, path, fallback) ==
    [var |-> var, ty |-> ty, path |-> path, fallback |-> fallback]

PathStep(struct_name, f) ==
    [enum |-> struct_name \o "EnvError", name |-> to_pascal_case(f.field_name.v)]

RECURSIVE Leaves(_, _)
RECURSIVE LeavesOfFields(_, _, _)
LeavesOfFields(struct_name, i, path) ==
    IF i > Len(Structs[struct_name]) THEN <<>>
    ELSE LET f == Structs[struct_name][i]
             p == IF f.infallible THEN path ELSE Append(path, PathStep(struct_name, f))
         IN (IF f.skip THEN <<>>
             ELSE IF f.env_var.k = "Some" THEN <<Leaf(f.env_var.v, f.field_type, p, NoneV)>>
             ELSE Leaves(f.field_type, p))
            \o LeavesOfFields(struct_name, i + 1, path)

Leaves(T, path) ==
    LET t == Head(T) IN
    CASE t \in Wrappers \cup {"Option"} -> Leaves(Tail(T), path)
      [] t = "OtelConfig" ->
            <<Leaf(OTEL_ENDPOINT, <<"Url">>, path, NoneV),
              Leaf(OTEL_LEVEL, <<"Level">>, path, SomeV(LevelV("DEBUG"))),
              Leaf(OTEL_TIMEOUT, <<"Duration">>, path, SomeV(from_millis(1000))),
              Leaf(OTEL_ENVIRONMENT, <<"String">>, path,
                   SomeV(StringV(<<"u", "n", "k", "n", "o", "w", "n">>)))>>
      [] t = "MetricsConfig" ->
            <<Leaf(TRACING_METRICS_PORT, <<"u16">>, path, SomeV(IntV("u16", 9000)))>>
      [] t \in DerivedNames -> LeavesOfFields(t, 1, path)

\* the load of one leaf input in the environment e
LeafLoad(l, e) == from_env_var(l.ty, l.var, e)

\* a leaf whose failure fails the composite
Fails(l, e) == IsErr(LeafLoad(l, e).r) /\ l.fallback.k = "None"

\* the first leaf, in declaration order, whose failure fails the composite
\* (0 when there is none)
FirstFailing(T, e) ==
    LET L == Leaves(T, <<>>)
        F == {i \in 1..Len(L) : Fails(L[i], e)}
    IN IF F = {} THEN 0 ELSE CHOOSE i \in F : \A j \in F : i <= j

RECURSIVE WrapPath(_, _)
WrapPath(path, x) ==
    IF path = <<>> THEN x
    ELSE VariantV(Head(path).enum, Head(path).name, WrapPath(Tail(path), x))

\* the error the outermost caller is to see when the leaf l fails
ErrorOf(l, e) ==
    LET r == LeafLoad(l, e).r
    IN IF r.k = "ParseError" THEN ParseError(WrapPath(l.path, r.v)) ELSE r

\* the value a composite is to hold for the leaf l
ValueOf(l, e) ==
    IF IsOk(LeafLoad(l, e).r) THEN LeafLoad(l, e).r.v ELSE l.fallback.v

\* the reads of the leaves 1..n, in order
RECURSIVE ReadsOf(_, _, _)
ReadsOf(L, n, e) ==
    IF n = 0 THEN <<>> ELSE ReadsOf(L, n - 1, e) \o LeafLoad(L[n], e).rd

\* the leaf values held by a loaded composite, in declaration order
RECURSIVE Flat(_, _)
RECURSIVE FlatFields(_, _, _)
FlatFields(struct_name, i, values) ==
    IF i > Len(Structs[struct_name]) THEN <<>>
    ELSE LET f == Structs[struct_name][i]
         IN (IF f.skip THEN <<>>
             ELSE IF f.env_var.k = "Some" THEN <<values[i]>>
             ELSE Flat(f.field_type, values[i]))
            \o FlatFields(struct_name, i + 1, values)

Flat(T, x) ==
    LET t == Head(T) IN
    CASE t \in Wrappers \cup {"Option"} -> Flat(Tail(T), x.v)
      [] t \in {"OtelConfig", "MetricsConfig"} -> x.v.fields
      [] t \in DerivedNames -> FlatFields(t, 1, x.v.fields)

Loaded == call.op = "from_env" /\ call.conv = 0

\* the descriptor of every required input is bound to a text its leaf loads
RequiredInputsParse(T, e) ==
    LET L == Leaves(T, <<>>)
        I == inventory(T)
    IN \A i \in 1..Len(I) : ~I[i].optional => IsOk(LeafLoad(L[i], e).r)

FieldsMatch(T, e, x) ==
    LET L == Leaves(T, <<>>)
    IN /\ Len(Flat(T, x)) = Len(L)
       /\ \A i \in 1..Len(L) : Flat(T, x)[i] = ValueOf(L[i], e)

\* C4 as stated: when every required input of the inventory is bound to a
\* parseable value, from_env() returns Ok and each field is the parse of its
\* input.
C4_AsStated ==
    Loaded => (RequiredInputsParse(call.ty, env) =>
                  IsOk(res) /\ FieldsMatch(call.ty, env, res.v))

\* C4: when every leaf input of the composite, optional or not, is bound to
\* a text its leaf type loads -- or the composite's own code has a fallback
\* for that leaf -- from_env() returns Ok and each loaded field holds the
\* value of its leaf load (the fallback where the leaf load failed).
C4_AllInputsLoad ==
    Loaded => (FirstFailing(call.ty, env) = 0 =>
                  IsOk(res) /\ FieldsMatch(call.ty, env, res.v))

\* load_nested: Nested loads from FIELD1..FIELD4 = "1".."4", FFFFFF = "5"
C4_Witness ==
    /\ Loaded /\ call.ty = <<"Nested">> /\ env = LoadNestedEnv
    /\ res = Ok(StructV("Nested",
                 <<StringV(<<"5">>),
                   StructV("FromEnvTest",
                      <<IntV("u8", 1), IntV("u64", 2), StringV(<<"3">>),
                        SomeV(StringV(<<"4">>)), WrapV("OnceLock", NoneV)>>)>>))

DerivedLoad == Loaded /\ Head(call.ty) \in DerivedNames

\* C5: a derived composite loads its fields in declaration order and stops
\* at the first that fails: the error is the one of the earliest failing
\* leaf, and the inputs read are those of the leaves up to that one and of
\* no later one (all of them when none fails).
C5_FirstFailureStops ==
    DerivedLoad =>
        LET L == Leaves(call.ty, <<>>)
            i == FirstFailing(call.ty, env)
        IN IF i = 0
           THEN IsOk(res) /\ reads = ReadsOf(L, Len(L), env)
           ELSE res = ErrorOf(L[i], env) /\ reads = ReadsOf(L, i, env)

\* Nested with FIELD1 unparseable and FIELD2 empty: FIELD1's error is
\* reported and FIELD2 is not read
C5_Witness ==
    /\ DerivedLoad /\ call.ty = <<"Nested">>
    /\ env = [LoadNestedEnv EXCEPT !["FIELD1"] = Bound(<<"h", ":", "x">>),
                                   !["FIELD2"] = Bound(<<>>)]
    /\ res.k = "ParseError"
    /\ reads = <<"FFFFFF", "FIELD1">>

\* the variants the error enum of a struct is to have: one per field that is
\* neither skip nor infallible, named after the field
VariantFields(struct_name) ==
    SelectSeq(Structs[struct_name], LAMBDA f : ~f.skip /\ ~f.infallible)

ExpectedVariants(struct_name) ==
    [i \in 1..Len(VariantFields(struct_name)) |->
        to_pascal_case(VariantFields(struct_name)[i].field_name.v)]

\* the number of composites on the way from T down to its i-th leaf
RECURSIVE Depth(_, _)
Depth(T, i) ==
    IF Head(T) \notin DerivedNames THEN Depth(Tail(T), i)
    ELSE LET fs == Structs[Head(T)]
             nested == {j \in 1..Len(fs) : ~fs[j].skip /\ fs[j].env_var.k = "None"}
             before(j) == Len(LeavesOfFields(Head(T), 1, <<>>))
                          - Len(LeavesOfFields(Head(T), j, <<>>))
             within == {j \in nested : /\ before(j) < i
                                       /\ i <= before(j) + Len(Leaves(fs[j].field_type, <<>>))}
         IN IF within = {} THEN 1
            ELSE 1 + Depth(fs[CHOOSE j \in within : TRUE].field_type,
                           i - before(CHOOSE j \in within : TRUE))

\* C6: when the sub-load of a field that is neither skip nor infallible
\* fails with ParseError(e), the derived composite fails with ParseError of
\* e wrapped in one variant per level of nesting, outermost first, each the
\* variant of the field on the path to the failing leaf; and every
\* generated error enum has exactly one variant per field that is neither
\* skip nor infallible.
C6_ParseErrorPath ==
    /\ \A S \in DerivedNames : error_variants(Structs[S], 1) = ExpectedVariants(S)
    /\ DerivedLoad =>
         LET L == Leaves(call.ty, <<>>)
             i == FirstFailing(call.ty, env)
         IN (i # 0 /\ LeafLoad(L[i], env).r.k = "ParseError") =>
               /\ res = ParseError(WrapPath(L[i].path, LeafLoad(L[i], env).r.v))
               /\ Len(L[i].path) = Depth(call.ty, i)

\* Outer with FIELD2 unparseable: three levels of variants
C6_Witness ==
    /\ DerivedLoad /\ call.ty = <<"Outer">>
    /\ env["FIELD2"] = Bound(<<"h", ":", "x">>)
    /\ res = ParseError(
               VariantV("OuterEnvError", <<"N", "e", "s", "t", "e", "d">>,
                 VariantV("NestedEnvError",
                          <<"F", "r", "o", "m", "E", "n", "v", "T", "e", "s", "t">>,
                   VariantV("FromEnvTestEnvError", <<"C", "h", "a", "r", "l", "e", "s">>,
                     ParseIntError("InvalidDigit")))))

\* C7: when a composite load fails because a leaf load returned
\* EnvError(name, cause) or Empty(name), the caller receives exactly that
\* error, at every depth and after any further map or from conversion.
C7_ProvenanceUnchanged ==
    (call.op = "from_env" /\ IsErr(res)) =>
        LET L == Leaves(call.ty, <<>>)
            i == FirstFailing(call.ty, env)
        IN (i # 0 /\ LeafLoad(L[i], env).r.k \in {"EnvError", "Empty"}) =>
              /\ res = LeafLoad(L[i], env).r
              /\ res.name = L[i].var

\* Outer fails on the non-Unicode FIELD2 three levels down, and the caller
\* converts the error twice more
C7_Witness ==
    /\ call.op = "from_env" /\ call.ty = <<"Outer">> /\ call.conv = 2
    /\ env["FIELD2"] = NonUnicode
    /\ res = EnvError("FIELD2", "NotUnicode")

\* the inventory nested_inventory expects of FromEnvTest
FromEnvTestInventory ==
    <<EnvItemInfo("FIELD1", "Tony is cool and a u8", FALSE),
      EnvItemInfo("FIELD2", "Charles is a u64", FALSE),
      EnvItemInfo("FIELD3", "Patrick is a String", FALSE),
      EnvItemInfo("FIELD4", "Oliver is an Option<String>", TRUE)>>

\* the descriptors of the fields of a struct that have a var, by field
DirectItems ==
    [Nested |-> <<EnvItemInfo("FFFFFF", "This is a guy named ffffff", FALSE)>>,
     Outer |-> <<EnvItemInfo("FIELD4", "An optional u8", TRUE),
                 EnvItemInfo("FFFFFF", "Comma-separated tags", FALSE)>>,
     Settings |-> <<EnvItemInfo("FIELD1", "The port, a u8", FALSE),
                    EnvItemInfo("FIELD4", "An optional name", TRUE),
                    EnvItemInfo("FIELD3", "Comma-separated tags", FALSE)>>,
     SettingsOpt |-> <<EnvItemInfo("FIELD1", "The port, a u8", TRUE),
                       EnvItemInfo("FIELD4", "An optional name", TRUE),
                       EnvItemInfo("FIELD3", "Comma-separated tags", FALSE)>>]

ExpectedInventory(S) ==
    CASE S = "FromEnvTest" -> FromEnvTestInventory
      [] S = "Nested" -> DirectItems.Nested \o FromEnvTestInventory
      [] S = "Outer" -> <<DirectItems.Outer[1]>> \o DirectItems.Nested
                          \o FromEnvTestInventory \o <<DirectItems.Outer[2]>>
      [] S \in {"Settings", "SettingsOpt"} -> DirectItems[S]

\* the number of fields of a struct that are not skip and have a var
DirectInputs(S) ==
    Cardinality({i \in 1..Len(Structs[S]) :
                    ~Structs[S][i].skip /\ Structs[S][i].env_var.k = "Some"})

\* the fields of a struct that are not skip and have no var
NestedFields(S) ==
    {i \in 1..Len(Structs[S]) : ~Structs[S][i].skip /\ Structs[S][i].env_var.k = "None"}

\* the lengths of the inventories of the nested fields i.. of a struct, summed
RECURSIVE NestedLengths(_, _)
NestedLengths(S, i) ==
    IF i > Len(Structs[S]) THEN 0
    ELSE (IF i \in NestedFields(S) THEN Len(inventory(Structs[S][i].field_type)) ELSE 0)
         + NestedLengths(S, i + 1)

\* xs occurs in ys as a contiguous run
OccursIn(xs, ys) ==
    \E k \in 0..(Len(ys) - Len(xs)) : SubSeq(ys, k + 1, k + Len(xs)) = xs

\* C8: inventory() of a derived composite is, in field-declaration order and
\* with duplicates kept, one descriptor per non-skip field with a var and
\* the whole inventory of each non-skip field without one: the nested
\* inventory occurs unmodified and contiguous in the outer one, the length
\* is the number of direct inputs plus the nested lengths, FromEnvTest has
\* 4 entries and Nested has 5.
C8_InventoryConcatenation ==
    (call.op = "inventory" /\ Head(call.ty) \in DerivedNames) =>
        LET S == Head(call.ty)
            inv == res.v.v
        IN /\ IsOk(res)
           /\ inv = ExpectedInventory(S)
           /\ S = "FromEnvTest" => Len(inv) = 4
           /\ S = "Nested" => Len(inv) = 5
           /\ \A i \in NestedFields(S) :
                 OccursIn(inventory(Structs[S][i].field_type), inv)
           /\ Len(inv) = DirectInputs(S) + NestedLengths(S, 1)

\* inventory() of Outer: seven descriptors, FIELD4 and FFFFFF twice each
C8_Witness ==
    /\ call.op = "inventory" /\ call.ty = <<"Outer">>
    /\ Len(res.v.v) = 7
    /\ res.v.v[1].var = "FIELD4" /\ res.v.v[6].var = "FIELD4"
    /\ res.v.v[2].var = "FFFFFF" /\ res.v.v[7].var = "FFFFFF"

InventoryVars(T) == {inventory(T)[i].var : i \in 1..Len(inventory(T))}

\* C9: every input name from_env() reads during a load, successful or
\* failed, at any depth, is the var of a descriptor of the type's
\* inventory().
C9_ReadsWithinInventory ==
    call.op = "from_env" =>
        \A i \in 1..Len(reads) : reads[i] \in InventoryVars(call.ty)

\* a failed load of Outer that read inputs of three levels
C9_Witness ==
    /\ Loaded /\ call.ty = <<"Outer">> /\ IsErr(res)
    /\ reads = <<"FIELD4", "FIELD4", "FFFFFF", "FIELD1", "FIELD2", "FIELD3">>

CheckedInventory == call.op = "check_inventory"

\* the descriptors i.. of an inventory that are required and whose name has
\* no binding at all
RECURSIVE RequiredUnbound(_, _, _)
RequiredUnbound(items, i, e) ==
    IF i > Len(items) THEN <<>>
    ELSE (IF ~items[i].optional /\ e[items[i].var].k = "Unset" THEN <<items[i]>> ELSE <<>>)
         \o RequiredUnbound(items, i + 1, e)

\* the descriptors i.. of an inventory that are required and whose name
\* std::env::var cannot read: no binding, or a value that is not Unicode
RECURSIVE RequiredUnreadable(_, _, _)
RequiredUnreadable(items, i, e) ==
    IF i > Len(items) THEN <<>>
    ELSE (IF ~items[i].optional /\ e[items[i].var].k # "Unicode" THEN <<items[i]>> ELSE <<>>)
         \o RequiredUnreadable(items, i + 1, e)

\* C10 as stated: check_inventory() returns, in inventory order, exactly the
\* descriptors that are required and whose name is not bound, or Ok(()) when
\* there is none; a bound name counts as present whatever its value is.
C10_AsStated ==
    CheckedInventory =>
        LET missing == RequiredUnbound(inventory(call.ty), 1, env)
        IN IF missing = <<>> THEN res = Ok(UnitV) ELSE res = MissingV(missing)

\* C10, what the code does: check_inventory() inspects every descriptor and
\* returns, in inventory order, exactly the required descriptors whose name
\* std::env::var cannot read -- unbound, or bound to a value that is not
\* Unicode -- or Ok(()) when there is none; a name bound to Unicode text
\* counts as present whether the text is empty, unparseable or otherwise.
C10_RequiredUnreadable ==
    CheckedInventory =>
        LET missing == RequiredUnreadable(inventory(call.ty), 1, env)
        IN /\ IF missing = <<>> THEN res = Ok(UnitV) ELSE res = MissingV(missing)
           /\ reads = [i \in 1..Len(inventory(call.ty)) |-> inventory(call.ty)[i].var]

\* Nested with FFFFFF and FIELD2 unset, FIELD1 empty: both misses are
\* returned, in order, and the empty FIELD1 is not
C10_Witness ==
    /\ CheckedInventory /\ call.ty = <<"Nested">>
    /\ env = [LoadNestedEnv EXCEPT !["FFFFFF"] = Unset, !["FIELD2"] = Unset]
    /\ res = MissingV(<<EnvItemInfo("FFFFFF", "This is a guy named ffffff", FALSE),
                        EnvItemInfo("FIELD2", "Charles is a u64", FALSE)>>)

(***************************************************************************)
(* The scenario of load_nested and its continuation                        *)
(***************************************************************************)
FromEnvTestV(oliver) ==
    StructV("FromEnvTest",
            <<IntV("u8", 1), IntV("u64", 2), StringV(<<"3">>), oliver,
              WrapV("OnceLock", NoneV)>>)

NestedV(oliver) == StructV("Nested", <<StringV(<<"5">>), FromEnvTestV(oliver)>>)

TonyOverflow ==
    VariantV("FromEnvTestEnvError", <<"T", "o", "n", "y">>, ParseIntError("PosOverflow"))

WithoutField4 == [LoadNestedEnv EXCEPT !["FIELD4"] = Unset]
Field1TooLarge(e) == [e EXCEPT !["FIELD1"] = Bound(<<"3", "0", "0">>)]

\* C11: with FIELD1..FIELD4 = "1".."4" (FFFFFF = "5") FromEnvTest and Nested
\* load the fields 1, 2, "3", Some("4"); with FIELD4 removed they still load
\* and only the last field differs, None; with FIELD1 = "300" the load fails
\* with ParseError tagged with the variant of the FIELD1 field (inside the
\* variant of the nesting field for Nested) while check_inventory() returns
\* Ok(()).
C11_LoadNestedScenario ==
    /\ (Loaded /\ env = LoadNestedEnv) =>
          /\ call.ty = <<"FromEnvTest">> => res = Ok(FromEnvTestV(SomeV(StringV(<<"4">>))))
          /\ call.ty = <<"Nested">> => res = Ok(NestedV(SomeV(StringV(<<"4">>))))
    /\ (Loaded /\ env = WithoutField4) =>
          /\ call.ty = <<"FromEnvTest">> => res = Ok(FromEnvTestV(NoneV))
          /\ call.ty = <<"Nested">> => res = Ok(NestedV(NoneV))
    /\ (Loaded /\ env \in {Field1TooLarge(LoadNestedEnv), Field1TooLarge(WithoutField4)}) =>
          /\ call.ty = <<"FromEnvTest">> => res = ParseError(TonyOverflow)
          /\ call.ty = <<"Nested">> =>
                res = ParseError(VariantV("NestedEnvError",
                         <<"F", "r", "o", "m", "E", "n", "v", "T", "e", "s", "t">>,
                         TonyOverflow))
    /\ (CheckedInventory
        /\ env \in {Field1TooLarge(LoadNestedEnv), Field1TooLarge(WithoutField4)}
        /\ call.ty \in {<<"FromEnvTest">>, <<"Nested">>}) => res = Ok(UnitV)

\* Nested fails on FIELD1 = "300" after FIELD4 was removed
C11_Witness ==
    /\ Loaded /\ call.ty = <<"Nested">>
    /\ env = Field1TooLarge(WithoutField4)
    /\ res.k = "ParseError"

(***************************************************************************)
(* Removing one required input                                             *)
(***************************************************************************)
\* the load of T succeeds in the environment e with the variable n bound
\* again to some value
LoadsWith(T, e, n) ==
    \E b \in BindingsOf(n) \ {Unset} : IsOk(from_env(T, [e EXCEPT ![n] = b]).r)

Listed(d) == res.k = "Err" /\ \E j \in 1..Len(res.v.v) : res.v.v[j] = d

C13_OptionComposite ==
    (Loaded /\ Head(call.ty) = "Option") =>
        LET inner == from_env(Tail(call.ty), env).r
            L == Leaves(call.ty, <<>>)
            i == FirstFailing(call.ty, env)
        IN /\ IsOk(inner) <=> (res.k = "Ok" /\ res.v.k = "Some")
           /\ IsOk(inner) => res = Ok(SomeV(inner.v))
           /\ inner.k \in {"EnvError", "Empty"} <=> res = Ok(NoneV)
           /\ inner.k = "ParseError" <=> res.k = "ParseError"
           /\ inner.k = "ParseError" => res = inner
           /\ res.k \in {"Ok", "ParseError"}
           /\ reads = from_env(Tail(call.ty), env).rd
           /\ i = 0 => res.k = "Ok" /\ res.v.k = "Some"
           /\ (i # 0 /\ LeafLoad(L[i], env).r.k \in {"EnvError", "Empty"}) => res = Ok(NoneV)
           /\ (i # 0 /\ LeafLoad(L[i], env).r.k = "ParseError") => res = ErrorOf(L[i], env)

\* Option<Nested> with FIELD2, the third leaf and two levels down, not
\* Unicode: the load returns None
C13_Witness ==
    /\ Loaded /\ call.ty = <<"Option", "Nested">>
    /\ env = [LoadNestedEnv EXCEPT !["FIELD2"] = NonUnicode]
    /\ res = Ok(NoneV)
    /\ reads = <<"FFFFFF", "FIELD1", "FIELD2">>

\* C14: for W in {Box, Arc, Cow}, W<T>::from_env() and
\* W<T>::from_env_var(n) return Ok(W(v)) iff T's operation returns Ok(v) and
\* the identical error iff T's returns that error, reading what T's reads;
\* W<T>::inventory() is T::inventory() and W<T>::check_inventory() is
\* T::check_inventory().
C14_WrappersForward ==
    (call.conv = 0
        /\ call.op \in {"from_env", "from_env_var", "check_inventory", "inventory"}
        /\ Head(call.ty) \in Wrappers) =>
        LET w == Head(call.ty)
            T == Tail(call.ty)
            inner == CASE call.op = "from_env" -> from_env(T, env)
                       [] call.op = "from_env_var" -> from_env_var(T, call.name, env)
                       [] call.op = "check_inventory" -> check_inventory(T, env)
                       [] call.op = "inventory" -> Load(Ok(InventoryV(inventory(T))), <<>>)
        IN /\ reads = inner.rd
           /\ call.op \in {"from_env", "from_env_var"} =>
                 /\ IsOk(inner.r) <=> IsOk(res)
                 /\ IsOk(inner.r) => res = Ok(WrapV(w, inner.r.v))
                 /\ IsErr(inner.r) => res = inner.r
           /\ call.op \in {"inventory", "check_inventory"} => res = inner.r

\* Box<FromEnvTest> loads in the environment of load_nested
C14_Witness ==
    /\ Loaded /\ call.ty = <<"Box", "FromEnvTest">> /\ env = LoadNestedEnv
    /\ res = Ok(WrapV("Box", FromEnvTestV(SomeV(StringV(<<"4">>)))))

(***************************************************************************)
(* The field attributes optional, skip and infallible                      *)
(***************************************************************************)
\* the struct that differs from T only in the optional attribute of its
\* first field
Twin(T) == IF T = <<"Settings">> THEN <<"SettingsOpt">> ELSE <<"Settings">>

\* two results of from_env() that are equal but for the name of the struct
\* and of its error enum
SameLoad(r1, r2) ==
    /\ r1.k = r2.k
    /\ r1.name = r2.name
    /\ r1.cause = r2.cause
    /\ r1.k = "Ok" => r1.v.v.fields = r2.v.v.fields
    /\ r1.k = "ParseError" => /\ r1.v.v.name = r2.v.v.name
                              /\ r1.v.v.inner = r2.v.v.inner

\* C15: Settings and SettingsOpt, which differ only in the optional
\* attribute of the field port, return the same from_env() result (and read
\* the same inputs) in every environment; their inventories differ only in
\* the optional flag of that field's descriptor, so that check_inventory()
\* of SettingsOpt never reports it.
C15_OptionalIsInformational ==
    (call.ty \in {<<"Settings">>, <<"SettingsOpt">>} /\ call.conv = 0) =>
        /\ call.op = "from_env" =>
              /\ SameLoad(res, from_env(Twin(call.ty), env).r)
              /\ reads = from_env(Twin(call.ty), env).rd
        /\ call.op = "inventory" =>
              LET mine == res.v.v
                  other == inventory(Twin(call.ty))
              IN /\ Len(mine) = Len(other)
                 /\ \A i \in 1..Len(mine) :
                       /\ mine[i].var = other[i].var
                       /\ mine[i].description = other[i].description
                       /\ i # 1 => mine[i].optional = other[i].optional
                 /\ mine[1].optional = (call.ty = <<"SettingsOpt">>)
                 /\ other[1].optional = (call.ty = <<"Settings">>)
        /\ (call.op = "check_inventory" /\ call.ty = <<"SettingsOpt">>) =>
              ~Listed(inventory(call.ty)[1])
        /\ (call.op = "check_inventory" /\ call.ty = <<"Settings">>) =>
              (Listed(inventory(call.ty)[1]) <=> env["FIELD1"].k # "Unicode")

\* SettingsOpt fails on the missing FIELD1 although the field is optional
C15_Witness ==
    /\ Loaded /\ call.ty = <<"SettingsOpt">>
    /\ env["FIELD1"] = Unset
    /\ res = EnvError("FIELD1", "NotPresent")

\* the skip fields of a struct, and the vars of its other fields
SkipFields(S) == {j \in 1..Len(Structs[S]) : Structs[S][j].skip}
OtherVars(S) == {Leaves(<<S>>, <<>>)[i].var : i \in 1..Len(Leaves(<<S>>, <<>>))}

\* C16: a skip field is produced by Default::default(): the load reads no
\* input for it, inventory() has no descriptor for it, the error enum has no
\* variant for it, and the result of from_env() does not depend on the
\* variable named on it, whatever that variable holds.
C16_SkipIsDefault ==
    (call.conv = 0 /\ call.op # "none" /\ Head(call.ty) \in DerivedNames) =>
        LET S == Head(call.ty) IN
        \A j \in SkipFields(S) :
            LET f == Structs[S][j]
                own == f.env_var.k = "Some" /\ f.env_var.v \notin OtherVars(S)
            IN /\ \A i \in 1..Len(error_variants(Structs[S], 1)) :
                     error_variants(Structs[S], 1)[i] # to_pascal_case(f.field_name.v)
               /\ (call.op = "from_env" /\ IsOk(res)) =>
                     res.v.v.fields[j] = DefaultOf(f.field_type)
               /\ (call.op = "from_env" /\ own) =>
                     /\ \A i \in 1..Len(reads) : reads[i] # f.env_var.v
                     /\ IsErr(res) => res.name # f.env_var.v
                     /\ \A b \in BindingsOf(f.env_var.v) :
                           from_env(call.ty, [env EXCEPT ![f.env_var.v] = b]).r = res
               /\ call.op = "inventory" =>
                     /\ Len(res.v.v) = Len(Leaves(call.ty, <<>>))
                     /\ own => \A i \in 1..Len(res.v.v) : res.v.v[i].var # f.env_var.v

\* Settings loads with FIELD2, the var named on its skip field, not Unicode
C16_Witness ==
    /\ Loaded /\ call.ty = <<"Settings">>
    /\ env["FIELD2"] = NonUnicode
    /\ IsOk(res)
    /\ res.v.v.fields[4] = WrapV("OnceLock", NoneV)
    /\ reads = <<"FIELD1", "FIELD4", "FIELD4", "FIELD3">>

\* for each leaf of a composite, in the order of Leaves, whether its field is
\* marked infallible
RECURSIVE InfallibleLeaves(_)
RECURSIVE InfallibleOfFields(_, _)
InfallibleOfFields(S, i) ==
    IF i > Len(Structs[S]) THEN <<>>
    ELSE LET f == Structs[S][i]
         IN (IF f.skip THEN <<>>
             ELSE IF f.env_var.k = "Some" THEN <<f.infallible>>
             ELSE InfallibleLeaves(f.field_type))
            \o InfallibleOfFields(S, i + 1)

InfallibleLeaves(T) ==
    CASE Head(T) \in Wrappers \cup {"Option"} -> InfallibleLeaves(Tail(T))
      [] Head(T) \in DerivedNames -> InfallibleOfFields(Head(T), 1)
      [] OTHER -> [i \in 1..Len(Leaves(T, <<>>)) |-> FALSE]

\* C17: a field marked infallible makes from_env() fail only with the
\* EnvError or Empty of its leaf load, carried over with the same name and
\* cause; its leaf load never returns a ParseError, and no load reaches the
\* unreachable!() of infallible_into.
C17_InfallibleOnlyProvenance ==
    call.op = "from_env" =>
        LET L == Leaves(call.ty, <<>>)
            I == InfallibleLeaves(call.ty)
            i == FirstFailing(call.ty, env)
        IN /\ res.k # "Panic"
           /\ Len(I) = Len(L)
           /\ \A j \in 1..Len(L) : I[j] => LeafLoad(L[j], env).r.k # "ParseError"
           /\ (i # 0 /\ I[i] /\ IsErr(res)) =>
                 /\ res.k \in {"EnvError", "Empty"}
                 /\ res = LeafLoad(L[i], env).r
                 /\ res.name = L[i].var

\* Settings fails on FIELD3, the variable of its infallible Vec field, which
\* holds a value that is not Unicode
C17_Witness ==
    /\ Loaded /\ call.ty = <<"Settings">>
    /\ env["FIELD3"] = NonUnicode
    /\ res = EnvError("FIELD3", "NotUnicode")

(***************************************************************************)
(* The derive macro at build time: one syn::Field per struct field, each   *)
(* with the list of items of its #[from_env(...)] attributes               *)
(***************************************************************************)

Meta(k, v) == [k |-> k, v |-> v]
SynField(ident, ty, attrs) == [ident |-> ident, ty |-> ty, attrs |-> attrs]

CompileError(msg) == [k |-> "CompileError", name |-> msg, cause |-> "", v |-> <<>>]

\* the parse_nested_meta closure, applied to the items in order: a later
\* item of the same kind replaces an earlier one
RECURSIVE ParseMetas(_, _, _)
ParseMetas(attrs, i, acc) ==
    IF i > Len(attrs) THEN acc
    ELSE LET m == attrs[i] IN
         ParseMetas(attrs, i + 1,
             CASE m.k = "skip" -> [acc EXCEPT !.skip = TRUE]
               [] m.k = "optional" -> [acc EXCEPT !.optional = TRUE]
               [] m.k = "var" -> [acc EXCEPT !.env_var = SomeV(m.v)]
               [] m.k = "desc" -> [acc EXCEPT !.desc = SomeV(m.v)]
               [] m.k = "infallible" -> [acc EXCEPT !.infallible = TRUE]
               [] OTHER -> acc)

try_from_RejectsEmptyDesc(field) ==
    Only({ IF f.env_var.k = "Some" /\ (f.desc.k = "None" \/ f.desc = SomeV(""))
           THEN CompileError("Missing description for field")
           ELSE Ok(f)
         : f \in {ParseMetas(field.attrs, 1,
                     Field(field.ident, field.ty, NoneV, NoneV, FALSE, FALSE, FALSE))} })

\* <Field as TryFrom<&syn::Field>>::try_from
try_from(field) ==
    Only({ IF f.desc.k = "None" /\ f.env_var.k = "Some"
           THEN CompileError("Missing description for field")
           ELSE Ok(f)
         : f \in {ParseMetas(field.attrs, 1,
                     Field(field.ident, field.ty, NoneV, NoneV, FALSE, FALSE, FALSE))} })

\* fields.collect::<Result<Vec<_>, _>>() in derive: the fields, or the error
\* of the first field try_from rejects
RECURSIVE collect(_, _, _)
collect(fields, i, acc) ==
    IF i > Len(fields) THEN Ok(acc)
    ELSE \* bound once
         Only({ IF IsErr(r) THEN r ELSE collect(fields, i + 1, Append(acc, r.v))
                : r \in {try_from(fields[i])} })

\* derive: a compile error, or the Input whose expansion is the impl
derive(fields) == collect(fields, 1, <<>>)

\* the expansion is accepted by the compiler only if the field type has the
\* trait the generated line names: Default for skip, FromEnvVar with a var
\* (with Error = Infallible when infallible), FromEnv without
Compiles(f) ==
    IF f.skip THEN f.field_type = <<"String">>
    ELSE IF f.env_var.k = "Some" THEN f.field_type = <<"String">>
    ELSE f.field_type = <<"FromEnvTest">> /\ ~f.infallible

\* the items a from_env attribute is built from, and the structs handed to
\* the derive: one field with up to MaxMetas items, alone or after a field
\* that is well-formed
MaxMetas == 3
Metas == {Meta("skip", ""), Meta("optional", ""), Meta("infallible", ""),
          Meta("var", ""), Meta("var", "FIELD2"),
          Meta("desc", ""), Meta("desc", "A thing")}
MetaLists == UNION {[1..n -> Metas] : n \in 0..MaxMetas}
TonyField ==
    SynField(SomeV(<<"t", "o", "n", "y">>), <<"u8">>,
             <<Meta("var", "FIELD1"), Meta("desc", "Tony is cool and a u8")>>)
DeriveInputs ==
    { pre \o <<SynField(SomeV(<<"x">>), ty, attrs)>> :
        pre \in {<<>>, <<TonyField>>},
        ty \in {<<"String">>, <<"FromEnvTest">>},
        attrs \in MetaLists }

InitDerive ==
    /\ env = LoadNestedEnv
    /\ writes = 0
    /\ call = NoCall
    /\ res = Ok(NoneV)
    /\ reads = <<>>
    /\ defaultCalls = 0
    /\ globals = NoGlobals

\* the compiler expands #[derive(FromEnv)] on a struct
Derive(fields) ==
    /\ call = NoCall
    /\ call' = [op |-> "derive", ty |-> <<>>, name |-> "", d |-> SomeV(fields), conv |-> 0]
    /\ res' = derive(fields)
    /\ reads' = <<>>
    /\ defaultCalls' = 0
    /\ UNCHANGED <<globals, env, writes>>

\* the program calls the generated inventory()
CallDerivedInventory ==
    /\ call.op = "derive"
    /\ IsOk(res)
    /\ \A i \in 1..Len(res.v) : i = 1 \/ i = Len(res.v) => Compiles(res.v[i])
    /\ call' = [call EXCEPT !.op = "inventory"]
    /\ res' = Ok(InventoryV(InventoryOfFields(res.v, 1)))
    /\ UNCHANGED <<globals, env, writes, reads, defaultCalls>>

NextDerive ==
    \/ \E fields \in DeriveInputs : Derive(fields)
    \/ CallDerivedInventory
    \/ TakeResult

SpecDerive == InitDerive /\ [][NextDerive]_vars

\* the field of a derive the attribute items are drawn for, and the items
\* of one kind on it
InputField == call.d.v[Len(call.d.v)]
ItemsOf(kind) == {i \in 1..Len(InputField.attrs) : InputField.attrs[i].k = kind}
LastOf(kind) == InputField.attrs[CHOOSE i \in ItemsOf(kind) : \A j \in ItemsOf(kind) : j <= i].v
HasItem(kind) == ItemsOf(kind) # {}
HasNonEmpty(kind) == HasItem(kind) /\ LastOf(kind) # ""

\* C18 as stated: the generator rejects every field with a var and no
\* non-empty desc, a missing and an empty description alike, and every
\* descriptor of a derived inventory has a non-empty name and description.
C18_AsStated ==
    /\ call.op = "derive" =>
          (IsErr(res) <=> HasItem("var") /\ ~HasNonEmpty("desc"))
    /\ (call.op = "inventory" /\ call.d.k = "Some") =>
          \A i \in 1..Len(res.v.v) :
              res.v.v[i].var # "" /\ res.v.v[i].description # ""

\* C18, amended: the generator rejects exactly the fields that have a var
\* item and no desc item at all; it accepts an empty desc and an empty var,
\* and the descriptor of an accepted field with a var carries the last var
\* and the last desc as written, empty or not.
C18_MissingDescRejected ==
    /\ call.op = "derive" =>
          /\ IsErr(res) <=> (HasItem("var") /\ ~HasItem("desc"))
          /\ IsErr(res) => res = CompileError("Missing description for field")
          /\ IsOk(res) =>
                /\ Len(res.v) = Len(call.d.v)
                /\ res.v[Len(res.v)].env_var =
                      (IF HasItem("var") THEN SomeV(LastOf("var")) ELSE NoneV)
                /\ res.v[Len(res.v)].desc =
                      (IF HasItem("desc") THEN SomeV(LastOf("desc")) ELSE NoneV)
    /\ (call.op = "inventory" /\ call.d.k = "Some" /\ HasItem("var") /\ ~HasItem("skip")) =>
          res.v.v[Len(res.v.v)] =
              EnvItemInfo(LastOf("var"), LastOf("desc"), HasItem("optional"))

\* a field with a var and an empty desc is accepted and its descriptor has
\* an empty description
C18_Witness ==
    /\ call.op = "inventory" /\ call.d.k = "Some"
    /\ InputField.attrs = <<Meta("var", "FIELD2"), Meta("desc", "")>>
    /\ res.v.v[Len(res.v.v)] = EnvItemInfo("FIELD2", "", FALSE)

\* a call of OtelConfig::load() or OtelConfig::from_env() has returned
OtelCalled(op) == call.op = op /\ call.ty = <<"OtelConfig">> /\ call.conv = 0

\* the endpoint variable holds a text that is not empty and parses as a URL
EndpointUsable(e) ==
    /\ e[OTEL_ENDPOINT].k = "Unicode"
    /\ e[OTEL_ENDPOINT].v # <<>>
    /\ ParseUrl(e[OTEL_ENDPOINT].v).k = "Ok"

\* C19: OtelConfig::load() returns None exactly when the endpoint variable
\* is unset, empty or not a parseable URL, and otherwise Some(config) with
\* the parsed URL as endpoint whatever the other three variables hold;
\* OtelConfig::from_env() fails in exactly the cases where load() is None.
C19_LoadNoneIffNoEndpoint ==
    /\ OtelCalled("load") =>
          /\ res.k = "Ok"
          /\ res.v.k = "None" <=> ~EndpointUsable(env)
          /\ res.v.k = "None" <=> IsErr(from_env(<<"OtelConfig">>, env).r)
          /\ EndpointUsable(env) =>
                /\ res.v.k = "Some"
                /\ res.v.v.v.ty = "OtelConfig"
                /\ res.v.v.v.fields[1] = ParseUrl(env[OTEL_ENDPOINT].v).v
                /\ res.v.v = from_env(<<"OtelConfig">>, env).r.v
    /\ OtelCalled("from_env") => (IsErr(res) <=> ~EndpointUsable(env))

\* load() returns a config although OTEL_LEVEL is not Unicode and
\* OTEL_TIMEOUT is not a number
C19_Witness ==
    /\ OtelCalled("load")
    /\ EndpointUsable(env)
    /\ env[OTEL_LEVEL] = NonUnicode
    /\ env[OTEL_TIMEOUT] = Bound(<<"h", ":", "x">>)
    /\ res.v.k = "Some"

Unknown == StringV(<<"u", "n", "k", "n", "o", "w", "n">>)

\* C20 as stated: a loaded OtelConfig has level DEBUG, timeout 1000 ms and
\* environment "unknown" when the respective variable is unset or empty,
\* and the parsed value when it holds a usable one.
C20_AsStated ==
    (OtelCalled("from_env") /\ IsOk(res)) =>
        /\ env[OTEL_LEVEL] \in {Unset, Bound(<<>>)} => res.v.v.fields[2] = LevelV("DEBUG")
        /\ env[OTEL_TIMEOUT] \in {Unset, Bound(<<>>)} =>
              res.v.v.fields[3] = from_millis(DefaultTimeoutMs)
        /\ env[OTEL_ENVIRONMENT] \in {Unset, Bound(<<>>)} => res.v.v.fields[4] = Unknown

\* C20, as the code behaves: the three settings never make the load fail
\* (it fails only with the endpoint's error); level and timeout are the
\* parsed value of a non-empty text that parses and DEBUG and 1000 ms in
\* every other case; environment is the text of the variable, the empty
\* text included, and "unknown" only when the variable cannot be read.
C20_OptionalSettings ==
    /\ (OtelCalled("from_env") /\ IsErr(res)) =>
          res = from_env_var(<<"Url">>, OTEL_ENDPOINT, env).r
    /\ (OtelCalled("from_env") /\ IsOk(res)) =>
          LET lv == env[OTEL_LEVEL]
              tm == env[OTEL_TIMEOUT]
              en == env[OTEL_ENVIRONMENT]
          IN /\ res.v.v.fields[2] =
                   (IF lv.k = "Unicode" /\ lv.v # <<>> /\ ParseLevel(lv.v).k = "Ok"
                    THEN ParseLevel(lv.v).v ELSE LevelV("DEBUG"))
             /\ res.v.v.fields[3] =
                   (IF tm.k = "Unicode" /\ tm.v # <<>> /\ ParseInt("u64", tm.v).k = "Ok"
                    THEN from_millis(ParseInt("u64", tm.v).v.v)
                    ELSE from_millis(DefaultTimeoutMs))
             /\ res.v.v.fields[4] =
                   (IF en.k = "Unicode" THEN StringV(en.v) ELSE Unknown)

\* a config loads with OTEL_ENVIRONMENT_NAME bound to the empty text and
\* has the empty text as environment
C20_Witness ==
    /\ OtelCalled("from_env") /\ IsOk(res)
    /\ env[OTEL_ENVIRONMENT] = Bound(<<>>)
    /\ res.v.v.fields[4] = StringV(<<>>)

\* the number a text of decimal digits denotes
RECURSIVE Decimal(_)
Decimal(s) == IF s = <<>> THEN 0 ELSE Decimal(SubSeq(s, 1, Len(s) - 1)) * 10 + Digit[s[Len(s)]]

\* the binding holds a valid u16: decimal digits, with or without a plus
\* sign, of a number in 0..65535
ValidU16(b) ==
    /\ b.k = "Unicode"
    /\ LET d == IF b.v # <<>> /\ b.v[1] = "+" THEN Tail(b.v) ELSE b.v
       IN /\ d # <<>>
          /\ \A i \in 1..Len(d) : IsDigit(d[i])
          /\ Decimal(d) <= 65535
U16Of(b) == Decimal(IF b.v[1] = "+" THEN Tail(b.v) ELSE b.v)

\* C21: MetricsConfig::from_env() never returns an error; its port is the
\* number TRACING_METRICS_PORT holds when that is a valid u16 and 9000 in
\* every other case; MetricsConfig::from(None) has port 9000 and
\* from(Some(p)) port p; init_metrics never panics on from_env().unwrap(),
\* and the port it serves is the port of the config.
C21_MetricsPortDefault ==
    /\ (call.op = "from_env" /\ call.ty = <<"MetricsConfig">> /\ call.conv = 0) =>
          /\ IsOk(res)
          /\ res.v = MetricsV(IF ValidU16(env[TRACING_METRICS_PORT])
                              THEN U16Of(env[TRACING_METRICS_PORT]) ELSE 9000)
    /\ call.op = "MetricsConfig::from" =>
          res = Ok(MetricsV(IF call.d.k = "None" THEN 9000 ELSE call.d.v))
    /\ call.op = "init_metrics" =>
          /\ res \in {Ok(UnitV), Panic("failed to install prometheus exporter")}
          /\ IsOk(res) =>
                globals.recorder = SomeV(IF ValidU16(env[TRACING_METRICS_PORT])
                                         THEN U16Of(env[TRACING_METRICS_PORT]) ELSE 9000)

\* a config loads with port 9000 although TRACING_METRICS_PORT holds 65536
C21_Witness ==
    /\ call.op = "from_env" /\ call.ty = <<"MetricsConfig">>
    /\ env[TRACING_METRICS_PORT] = Bound(<<"6", "5", "5", "3", "6">>)
    /\ res = Ok(MetricsV(9000))

(***************************************************************************)
(* Initialisation of a process: init_tracing, trace_only and trace install *)
(* the global tracing subscriber, init_metrics the global recorder         *)
(***************************************************************************)

TRACING_LOG_JSON == "TRACING_LOG_JSON"
RUST_LOG == "RUST_LOG"

\* OtelGuard(provider, level)
GuardV(level) == [k |-> "OtelGuard", v |-> level]

\* OtelConfig::provider: builds an exporter and a provider with a batch
\* task; the guard it returns, and the statics afterwards
provider(cfg, g) ==
    [guard |-> GuardV(cfg.v.fields[2]), g |-> [g EXCEPT !.providers = @ + 1]]

SubscriberV(fmt, otlp) == SomeV([fmt |-> fmt, otlp |-> otlp])

install_fmt_Replaces(otlp, e, g) ==
    Only({ [r |-> Ok(UnitV),
            rd |-> json.rd \o <<RUST_LOG>>,
            g |-> [g EXCEPT !.subscriber =
                      SubscriberV(IF IsOk(json.r) /\ json.r.v.v THEN "json" ELSE "plain",
                                  otlp)]]
         : json \in {from_env_var(<<"bool">>, TRACING_LOG_JSON, e)} })

install_fmt_JsonIfSet(otlp, e, g) ==
    Only({ IF g.subscriber.k = "Some"
           THEN [r |-> Panic("failed to set global default subscriber"),
                 rd |-> json.rd \o <<RUST_LOG>>, g |-> g]
           ELSE [r |-> Ok(UnitV),
                 rd |-> json.rd \o <<RUST_LOG>>,
                 g |-> [g EXCEPT !.subscriber =
                           SubscriberV(IF IsOk(json.r) THEN "json" ELSE "plain", otlp)]]
         : json \in {from_env_var(<<"bool">>, TRACING_LOG_JSON, e)} })

\* install_fmt!(registry): the format is read from TRACING_LOG_JSON, the
\* filter from RUST_LOG, and init() panics when a global subscriber is set
install_fmt(otlp, e, g) ==
    Only({ IF g.subscriber.k = "Some"
           THEN [r |-> Panic("failed to set global default subscriber"),
                 rd |-> json.rd \o <<RUST_LOG>>, g |-> g]
           ELSE [r |-> Ok(UnitV),
                 rd |-> json.rd \o <<RUST_LOG>>,
                 g |-> [g EXCEPT !.subscriber =
                           SubscriberV(IF IsOk(json.r) /\ json.r.v.v THEN "json" ELSE "plain",
                                       otlp)]]
         : json \in {from_env_var(<<"bool">>, TRACING_LOG_JSON, e)} })

init_tracing_AlwaysOtlp(e, g) ==
    Only({ Only({ [r |-> IF IsErr(f.r) THEN f.r ELSE Ok(SomeV(GuardV(LevelV("DEBUG")))),
                   rd |-> l.rd \o f.rd, g |-> f.g]
                 : f \in {install_fmt(TRUE, e, [g EXCEPT !.providers = @ + 1])} })
         : l \in {OtelConfig_load(e)} })

\* init_tracing: the returned guard or the panic, the reads and the
\* statics afterwards
init_tracing(e, g) ==
    Only({ IF l.r.k = "Some"
           THEN Only({ Only({ [r |-> IF IsErr(f.r) THEN f.r ELSE Ok(SomeV(p.guard)),
                               rd |-> l.rd \o f.rd, g |-> f.g]
                             : f \in {install_fmt(TRUE, e, p.g)} })
                      : p \in {provider(l.r.v, g)} })
           ELSE Only({ [r |-> IF IsErr(f.r) THEN f.r ELSE Ok(NoneV),
                        rd |-> l.rd \o f.rd, g |-> f.g]
                      : f \in {install_fmt(FALSE, e, g)} })
         : l \in {OtelConfig_load(e)} })

\* the number of OTLP providers one run builds
MaxProviders == 2

\* the variables of the process and what the caller writes to them
ProcNames == {OTEL_ENDPOINT, TRACING_LOG_JSON, TRACING_METRICS_PORT, RUST_LOG}
ProcBindings(n) ==
    CASE n = OTEL_ENDPOINT -> {Unset, Bound(<<>>), Bound(<<"1">>), Bound(<<"h", ":", "x">>)}
      [] n = TRACING_LOG_JSON ->
            {Unset, NonUnicode, Bound(<<>>), Bound(<<"1">>),
             Bound(<<"f", "a", "l", "s", "e">>)}
      [] n = TRACING_METRICS_PORT -> {Unset, Bound(<<"1">>)}
      [] n = RUST_LOG -> {Unset, Bound(<<"1">>)}

InitProc ==
    /\ env = [n \in ProcNames |-> Unset]
    /\ writes = 0
    /\ call = NoCall
    /\ res = Ok(NoneV)
    /\ reads = <<>>
    /\ defaultCalls = 0
    /\ globals = NoGlobals

\* the program calls init_tracing(), or trace_only(), which returns its
\* result
CallInitTracing(op) ==
    /\ call = NoCall
    /\ globals.providers < MaxProviders
    /\ \E l \in {init_tracing(env, globals)} :
        /\ call' = CompositeCall(op, <<>>)
        /\ res' = l.r
        /\ reads' = l.rd
        /\ globals' = l.g
        /\ defaultCalls' = 0
        /\ UNCHANGED <<env, writes>>

\* the program calls trace(): first init_tracing()
CallTrace ==
    /\ call = NoCall
    /\ globals.providers < MaxProviders
    /\ \E l \in {init_tracing(env, globals)} :
        /\ call' = CompositeCall("trace:init_tracing", <<>>)
        /\ res' = l.r
        /\ reads' = l.rd
        /\ globals' = l.g
        /\ defaultCalls' = 0
        /\ UNCHANGED <<env, writes>>

\* trace(), after init_tracing() has returned: init_metrics(), and the guard
\* is returned unless that panics
TraceInitMetrics(busy) ==
    /\ call.op = "trace:init_tracing"
    /\ IsOk(res)
    /\ \E l \in {init_metrics(env, globals, busy)} :
        /\ call' = CompositeCall("trace", <<>>)
        /\ res' = (IF IsErr(l.r) THEN l.r ELSE res)
        /\ reads' = reads \o l.rd
        /\ globals' = l.g
        /\ UNCHANGED <<env, writes, defaultCalls>>

NextProc ==
    \/ \E n \in DOMAIN env : \E b \in ProcBindings(n) : SetVar(n, b)
    \/ \E op \in {"init_tracing", "trace_only"} : CallInitTracing(op)
    \/ CallTrace
    \/ \E busy \in BOOLEAN : TraceInitMetrics(busy)
    \/ \E busy \in BOOLEAN : CallInitMetrics(busy)
    \/ TakeResult

SpecProc == InitProc /\ [][NextProc]_vars

\* the calls that run init_tracing(), and the panic of init()
TracingOps == {"init_tracing", "trace_only", "trace:init_tracing"}
SubscriberSet == Panic("failed to set global default subscriber")
ExporterFailed == Panic("failed to install prometheus exporter")

TracingReturned == call.op \in TracingOps \cup {"trace"} /\ IsOk(res)

C24_InstallOnce ==
    [][ /\ globals.subscriber.k = "Some" =>
              /\ globals'.subscriber = globals.subscriber
              /\ (call = NoCall /\ call'.op \in TracingOps) => res' = SubscriberSet
        /\ (call = NoCall /\ call'.op = "trace:init_tracing") =>
              globals'.recorder = globals.recorder
        /\ (call.op = "trace:init_tracing" /\ IsErr(res)) =>
              /\ call' = NoCall
              /\ globals' = globals
        /\ (call.op = "trace:init_tracing" /\ call'.op = "trace") =>
              /\ IsOk(res)
              /\ globals.subscriber.k = "Some"
              /\ globals'.subscriber = globals.subscriber
        /\ (call.op # call'.op /\ call'.op \in {"trace", "init_metrics"}) =>
              \/ /\ res' = ExporterFailed
                 /\ globals'.recorder = globals.recorder
              \/ /\ IsOk(res')
                 /\ globals.recorder.k = "None"
                 /\ globals'.recorder.k = "Some"
      ]_vars

\* a second call, trace(), panicked in init_tracing() with the subscriber
\* of the first call still installed and no recorder installed
C24_Witness ==
    /\ call.op = "trace:init_tracing"
    /\ res = SubscriberSet
    /\ globals.subscriber.k = "Some"
    /\ globals.recorder.k = "None"

\* the range of each integer type
InRange(t, v) ==
    CASE t = "u8" -> v \in 0..255
      [] t = "u16" -> v \in 0..65535
      [] t = "i8" -> v \in -128..127
      [] t = "u64" -> v >= 0

\* C25: for every integer type and number v, once the input is set to the
\* decimal text of v, from_env_var returns Ok(v) when v is in the range of
\* the type and ParseError with the error of the type's own parse when it
\* is not; an empty value returns Empty(n).  Duration::from_env_var returns
\* from_millis(m) exactly when u64::from_env_var returns Ok(m), and the
\* same error otherwise.
C25_PrimitiveRoundTrip ==
    /\ (Returned("from_env_var") /\ call.ty \in {<<"u8">>, <<"u16">>, <<"u64">>, <<"i8">>}) =>
          LET t == Head(call.ty)
              b == env[call.name]
          IN /\ b = Bound(<<>>) => res = Empty(call.name)
             /\ \A v \in SampleValues :
                   b = Bound(to_string(v)) =>
                      IF InRange(t, v) THEN res = Ok(IntV(t, v))
                      ELSE /\ FromStr(t, b.v).k = "Err"
                           /\ res = ParseError(FromStr(t, b.v).v)
                           /\ res.v.v = (IF v > 0 THEN "PosOverflow"
                                         ELSE IF t = "i8" THEN "NegOverflow"
                                         ELSE "InvalidDigit")
    /\ (Returned("from_env_var") /\ call.ty = <<"Duration">>) =>
          LET u == from_env_var(<<"u64">>, call.name, env).r
          IN IF IsOk(u) THEN res = Ok(from_millis(u.v.v)) ELSE res = u

\* i8 loads -128 from the text the test helper wrote for -128
C25_Witness ==
    /\ Returned("from_env_var") /\ call.ty = <<"i8">>
    /\ env[call.name] = Bound(to_string(-128))
    /\ env[call.name] = Bound(<<"-", "1", "2", "8">>)
    /\ res = Ok(IntV("i8", -128))

\* the operations that load or describe: from_env_var and its three
\* fallback variants, from_env, inventory, check_inventory
CoreOps == {"from_env_var", "from_env_var_or", "from_env_var_or_else",
            "from_env_var_or_default", "from_env", "inventory", "check_inventory"}

\* C26: no core operation, successful or failed, sets, removes or modifies
\* a variable: the environment changes only in a write of the caller;
\* inventory() reads no variable and returns the same descriptors in every
\* environment.
C26_EnvironmentUnchanged ==
    [][ /\ (call = NoCall /\ call'.op \in CoreOps) => env' = env /\ writes' = writes
        /\ env' # env => (call = NoCall /\ call' = NoCall /\ writes' = writes + 1)
        /\ (call = NoCall /\ call'.op = "inventory") =>
              /\ reads' = <<>>
              /\ IsOk(res')
              /\ Head(call'.ty) \in DerivedNames =>
                    res'.v.v = ExpectedInventory(Head(call'.ty))
              /\ call'.ty = <<"OtelConfig">> =>
                    [i \in 1..Len(res'.v.v) |-> res'.v.v[i].var]
                       = <<OTEL_ENDPOINT, OTEL_LEVEL, OTEL_TIMEOUT, OTEL_ENVIRONMENT>>
      ]_vars

\* a failed load of Nested has read FFFFFF and FIELD1 and left the
\* environment of load_nested, with FIELD1 rewritten, as it was
C26_Witness ==
    /\ Loaded /\ call.ty = <<"Nested">>
    /\ IsErr(res)
    /\ reads = <<"FFFFFF", "FIELD1">>
    /\ env = [LoadNestedEnv EXCEPT !["FIELD1"] = Bound(<<"3", "0", "0">>)]

(***************************************************************************)
(* <Option<T> as FromEnvVar>::from_env_var read by read, with another      *)
(* thread writing the environment: std::env::var and set_var take the      *)
(* lock of the environment, so a write falls before, between or after the  *)
(* two reads the operation makes                                           *)
(***************************************************************************)

Option_peek_AnyText(s) == s.k = "Ok"

\* the match on std::env::var(env_var): TRUE in the arm that goes on to
\* T::from_env_var, FALSE in the two arms that return Ok(None)
Option_peek(s) == s.k = "Ok" /\ s.v # <<>>

RaceNames == {"U8_"}
RaceTexts == {<<>>, <<"4", "2">>, <<"3", "0", "0">>, <<"h", ":", "x">>}
RaceBindings == {Unset, NonUnicode} \cup {Bound(t) : t \in RaceTexts}
RaceTypes == {<<"Option", "u8">>, <<"Option", "Url">>, <<"Option", "String">>,
              <<"Option", "Box", "u16">>}

InitRace ==
    /\ env \in [RaceNames -> RaceBindings]
    /\ writes = 0
    /\ call = NoCall
    /\ res = Ok(NoneV)
    /\ reads = <<>>
    /\ defaultCalls = 0
    /\ globals = NoGlobals

\* Option::<T>::from_env_var(n), up to its match: the first read of n; the
\* call remembers how many writes the environment had seen
OptionPeek(T, n) ==
    /\ call = NoCall
    /\ \E s \in {EnvVar(env, n)} :
        /\ call' = LeafCall(IF Option_peek(s) THEN "Option::from_env_var:read"
                            ELSE "Option::from_env_var", T, n, SomeV(writes))
        /\ res' = Ok(NoneV)
        /\ reads' = <<n>>
        /\ defaultCalls' = 0
        /\ UNCHANGED <<globals, env, writes>>

\* the arm Ok(_): T::from_env_var(n).map(Some), the second read of n
OptionRead ==
    /\ call.op = "Option::from_env_var:read"
    /\ \E inner \in {from_env_var(Tail(call.ty), call.name, env)} :
        /\ call' = [call EXCEPT !.op = "Option::from_env_var"]
        /\ res' = (IF IsOk(inner.r) THEN Ok(SomeV(inner.r.v)) ELSE inner.r)
        /\ reads' = reads \o inner.rd
        /\ UNCHANGED <<globals, env, writes, defaultCalls>>

\* another thread writes the environment between the two reads
ConcurrentSetVar(n, b) ==
    /\ call.op = "Option::from_env_var:read"
    /\ writes < MaxWrites
    /\ env[n] # b
    /\ env' = [env EXCEPT ![n] = b]
    /\ writes' = writes + 1
    /\ UNCHANGED <<globals, call, res, reads, defaultCalls>>

NextRace ==
    \/ \E n \in RaceNames, b \in RaceBindings : SetVar(n, b)
    \/ \E T \in RaceTypes, n \in RaceNames : OptionPeek(T, n)
    \/ \E n \in RaceNames, b \in RaceBindings : ConcurrentSetVar(n, b)
    \/ OptionRead
    \/ TakeResult

SpecRace == InitRace /\ [][NextRace]_vars

\* the operation has returned and no write fell between its reads
OptionReturnedUndisturbed == call.op = "Option::from_env_var" /\ call.d.v = writes

\* C27: Option::<T>::from_env_var(n) returns Ok(None) when n is unset,
\* unreadable or empty, and otherwise T::from_env_var(n) with a success
\* wrapped in Some and an error passed through; when the environment is not
\* modified between its two reads it never returns EnvError or Empty for a
\* parseable T.
C27_OptionLeaf ==
    OptionReturnedUndisturbed =>
        LET b == env[call.name]
            T == Tail(call.ty)
            inner == from_env_var(T, call.name, env).r
        IN /\ res = from_env_var(call.ty, call.name, env).r
           /\ (b.k # "Unicode" \/ b.v = <<>>) => (res = Ok(NoneV) /\ reads = <<call.name>>)
           /\ (b.k = "Unicode" /\ b.v # <<>>) =>
                 /\ res = (IF IsOk(inner) THEN Ok(SomeV(inner.v)) ELSE inner)
                 /\ Head(reads) = call.name /\ Len(reads) >= 2
           /\ Head(T) \in ParseableTypes \cup Wrappers =>
                 res.k \in {"Ok", "ParseError"}

\* Option<u8> passes on the ParseError of 300, having read the name twice
C27_Witness ==
    /\ OptionReturnedUndisturbed
    /\ call.ty = <<"Option", "u8">>
    /\ env[call.name] = Bound(<<"3", "0", "0">>)
    /\ res = ParseError(ParseIntError("PosOverflow"))
    /\ reads = <<call.name, call.name>>

C29_BoolLeaf ==
    (Returned("from_env_var") /\ call.ty = <<"bool">>) =>
        LET b == env[call.name] IN
        /\ res.k \in {"Ok", "EnvError"}
        /\ b = Unset => res = EnvError(call.name, "NotPresent")
        /\ b = NonUnicode => res = EnvError(call.name, "NotUnicode")
        /\ b = Bound(<<>>) => res = Ok(BoolV(FALSE))
        /\ (b.k = "Unicode" /\ b.v # <<>>) => res = Ok(BoolV(TRUE))

\* a bool loads as true from the text "false"
C29_Witness ==
    /\ Returned("from_env_var") /\ call.ty = <<"bool">>
    /\ env[call.name] = Bound(<<"f", "a", "l", "s", "e">>)
    /\ res = Ok(BoolV(TRUE))

\* every descriptor of T flagged optional belongs to a leaf of type Option<_>
OptionalOnOption(T) ==
    /\ Len(inventory(T)) = Len(Leaves(T, <<>>))
    /\ \A i \in 1..Len(inventory(T)) :
          inventory(T)[i].optional => Head(Leaves(T, <<>>)[i].ty) = "Option"

\* C30: for a derived composite whose optional descriptors all belong to
\* Option<_> leaves, in an environment where check_inventory() returns
\* Ok(()), from_env() never fails for a variable that cannot be read: it
\* succeeds, or fails with Empty for a variable bound to the empty string,
\* or with ParseError.
C30_PreflightSound ==
    (Loaded /\ Head(call.ty) \in DerivedNames /\ OptionalOnOption(call.ty)
        /\ IsOk(check_inventory(call.ty, env).r)) =>
        /\ res.k \in {"Ok", "Empty", "ParseError"}
        /\ res.k = "Empty" => env[res.name] = Bound(<<>>)
        /\ \A i \in 1..Len(reads) :
              EnvVar(env, reads[i]).k = "Err" =>
                 \E j \in 1..Len(inventory(call.ty)) :
                    inventory(call.ty)[j].var = reads[i] /\ inventory(call.ty)[j].optional

\* Nested passes the check with FIELD1 bound to the empty string and FIELD4
\* not Unicode, and its load fails with Empty(FIELD1)
C30_Witness ==
    /\ Loaded /\ call.ty = <<"Nested">>
    /\ env = [LoadNestedEnv EXCEPT !["FIELD1"] = Bound(<<>>), !["FIELD4"] = NonUnicode]
    /\ check_inventory(call.ty, env).r = Ok(UnitV)
    /\ res = Empty("FIELD1")

====
